---- MODULE Spec2Model ----
(***************************************************************************)
(* Verification model of the burner-dimension design pipeline              *)
(* (src/src/combustion.py, burner_design.py, chamber_design.py,            *)
(* pressure_losses.py).                                                    *)
(*                                                                         *)
(* Arithmetic.  The program computes with Python floats (IEEE binary64,    *)
(* every operation correctly rounded).  TLC integers are 32 bits wide, so  *)
(* the model keeps the *shape* of that arithmetic at a reduced width: a    *)
(* number is a decimal floating-point value  m * 10^e  with a four-digit    *)
(* mantissa (1000 <= |m| <= 9999, or m = 0).  +, -, *, / and sqrt round    *)
(* their exact result to the nearest representable value, ties to even;    *)
(* log10 and ** are computed in fixed point and are within one unit in the *)
(* last place.  Every *, /, +, -, sqrt, log10 and ** of the source is one  *)
(* F-operation of the model, in the order the source evaluates them.  The  *)
(* F-operations are functions on Floats, so that their operands are        *)
(* evaluated before the operation, as Python evaluates them.               *)
(***************************************************************************)
EXTENDS Integers, Sequences, FiniteSets, TLC

(***************************************************************************)
(* Decimal floating point                                                  *)
(***************************************************************************)
Abs(n) == IF n < 0 THEN 0 - n ELSE n

Sgn(n) == IF n < 0 THEN 0 - 1 ELSE IF n = 0 THEN 0 ELSE 1

\* 10^k for 0 <= k <= 9
Pow10(k) == <<1, 10, 100, 1000, 10000, 100000, 1000000, 10000000, 100000000, 1000000000>>[k + 1]

\* number of decimal digits of n >= 1
NDigits(n) ==
    IF n < 10000
    THEN (IF n < 100 THEN (IF n < 10 THEN 1 ELSE 2) ELSE (IF n < 1000 THEN 3 ELSE 4))
    ELSE IF n < 10000000
    THEN (IF n < 100000 THEN 5 ELSE IF n < 1000000 THEN 6 ELSE 7)
    ELSE IF n < 100000000 THEN 8 ELSE IF n < 1000000000 THEN 9 ELSE 10

\* n / p for n >= 0 and p > 0, rounded to the nearest integer, ties to even
DivRound(n, p) ==
    IF 2 * (n % p) > p \/ (2 * (n % p) = p /\ (n \div p) % 2 = 1)
    THEN n \div p + 1
    ELSE n \div p

\* the floats of the model
Floats == [m : Int, e : Int]

Zero == [m |-> 0, e |-> 0]

\* rounding up to 10000 carries into the exponent
Carry(q, e) == IF Abs(q) = 10000 THEN [m |-> q \div 10, e |-> e + 1] ELSE [m |-> q, e |-> e]

\* n * 10^e for n # 0 of d decimal digits
NormDigits(n, e, d) ==
    IF d <= 4 THEN [m |-> n * Pow10(4 - d), e |-> e - (4 - d)]
    ELSE Carry(Sgn(n) * DivRound(Abs(n), Pow10(d - 4)), e + d - 4)

\* the float nearest to n * 10^e
Norm(n, e) == IF n = 0 THEN Zero ELSE NormDigits(n, e, NDigits(Abs(n)))

\* a float literal: F(8314, -3) is 8.314
F(n, e) == Norm(n, e)

FNeg[a \in Floats] == [m |-> 0 - a.m, e |-> a.e]

FAbs[a \in Floats] == [m |-> Abs(a.m), e |-> a.e]

FMul[a \in Floats, b \in Floats] == Norm(a.m * b.m, a.e + b.e)

\* n / d truncated, with one more digit that records a remainder
DivSticky(n, d) == (n \div d) * 10 + (IF n % d = 0 THEN 0 ELSE 1)

\* b # 0 (Python raises ZeroDivisionError otherwise)
FDiv[a \in Floats, b \in Floats] ==
    Norm(Sgn(a.m) * Sgn(b.m) * DivSticky(Abs(a.m) * 100000, Abs(b.m)),
         a.e - b.e - 6)

\* hi.e >= lo.e, both non-zero
AddAligned(hi, lo) ==
    IF hi.e - lo.e >= 6 THEN hi
    ELSE Norm(hi.m * Pow10(hi.e - lo.e) + lo.m, lo.e)

FAdd[a \in Floats, b \in Floats] ==
    IF a.m = 0 THEN b
    ELSE IF b.m = 0 THEN a
    ELSE AddAligned(IF a.e >= b.e THEN a ELSE b, IF a.e >= b.e THEN b ELSE a)

FSub[a \in Floats, b \in Floats] == FAdd[a, FNeg[b]]

FLt[a \in Floats, b \in Floats] ==
    IF a.m > 0 /\ b.m > 0 THEN a.e < b.e \/ (a.e = b.e /\ a.m < b.m)
    ELSE IF a.m < 0 /\ b.m < 0 THEN a.e > b.e \/ (a.e = b.e /\ a.m < b.m)
    ELSE a.m < b.m

FLe[a \in Floats, b \in Floats] == ~FLt[b, a]

FGt[a \in Floats, b \in Floats] == FLt[b, a]

FGe[a \in Floats, b \in Floats] == FLe[b, a]

FMax[a \in Floats, b \in Floats] == IF FGt[b, a] THEN b ELSE a

FMin[a \in Floats, b \in Floats] == IF FLt[b, a] THEN b ELSE a

\* one step of Newton's iteration for the square root of n
NewtonStep(n, s) == (s + n \div s) \div 2

\* s is within one of floor(sqrt(n))
SqrtFloor(n, s) == IF s * s > n THEN s - 1 ELSE IF (s + 1) * (s + 1) <= n THEN s + 1 ELSE s

\* floor(sqrt(n)) for 10^7 <= n < 10^9
ISqrt(n) ==
    SqrtFloor(n, NewtonStep(n, NewtonStep(n, NewtonStep(n, NewtonStep(n,
        IF n < 100000000 THEN 5600 ELSE 17800)))))

\* s = floor(sqrt(n)) rounded to the nearest integer
SqrtNearest(n, s) == IF n - s * s > s THEN s + 1 ELSE s

\* s = floor(sqrt(n)) with one more digit that records a remainder
SqrtSticky(n, s) == s * 10 + (IF s * s = n THEN 0 ELSE 1)

\* math.sqrt, a > 0
FSqrt[a \in Floats] ==
    IF a.e % 2 = 0
    THEN Norm(SqrtNearest(a.m * 10000, ISqrt(a.m * 10000)),
              (a.e - 4) \div 2)
    ELSE Norm(SqrtSticky(a.m * 100000, ISqrt(a.m * 100000)),
              (a.e - 5) \div 2 - 1)

(***************************************************************************)
(* log10 and ** work on fixed-point integers scaled by LogScale            *)
(***************************************************************************)
LogScale == 100000

\* (x * y) / LogScale for 0 <= x, y < 10^6, to the nearest integer
MulS(x, y) ==
    LET x1 == x \div 1000
        x0 == x % 1000
        y1 == y \div 1000
        y0 == y % 1000
    IN  x1 * y1 * 10
          + ((x1 * y0 + x0 * y1) * 1000 + x0 * y0 + 50000) \div 100000

\* 10^(d / 10) * LogScale for d = 0 .. 9
Decades == <<100000, 125893, 158489, 199526, 251189, 316228, 398107, 501187, 630957, 794328>>

Ln10Fix == 230259

Log10EFix == 43429

\* (a * LogScale) / b for 0 <= a < 10^6 and 0 < b < 2 * 10^6, to the nearest integer
DivS(a, b) == ((a * 1000) \div b) * 100 + (((a * 1000) % b) * 100 + b \div 2) \div b

\* atanh(y) * LogScale for y below 0.12: y + y^3 / 3 + y^5 / 5
AtanhSeries(y, y2) == y + (MulS(y, y2) + 1) \div 3 + (MulS(MulS(y, y2), y2) + 2) \div 5

\* ln(x / t) * LogScale for t <= x < 1.26 * t, as 2 * atanh((x - t) / (x + t))
LnRatio(y) == 2 * AtanhSeries(y, MulS(y, y))

\* the largest d with 10^(d / 10) * LogScale <= x, for LogScale <= x < 10 * LogScale
Tenth(x) == Cardinality({d \in 1 .. 10 : Decades[d] <= x}) - 1

\* log10(x / LogScale) * LogScale for the tenth d of x
Log10Tenth(x, d) == d * 10000 + MulS(LnRatio(DivS(x - Decades[d + 1], x + Decades[d + 1])), Log10EFix)

\* log10(a) * LogScale as an integer, a > 0
Log10Fix(a) == (a.e + 3) * LogScale + Log10Tenth(a.m * 100, Tenth(a.m * 100))

\* math.log10, a > 0
FLog10[a \in Floats] == Norm(Log10Fix(a), 0 - 5)

\* e^(r / LogScale) * LogScale for 0 <= r < 0.24 * LogScale: the Taylor
\* series up to r^5 / 120, by Horner's rule
ExpSmall(r) ==
    LogScale + MulS(r, LogScale + (MulS(r, LogScale + (MulS(r, LogScale
        + (MulS(r, LogScale + r \div 5) + 2) \div 4) + 1) \div 3) + 1) \div 2)

\* 10^(f / LogScale) * LogScale, 0 <= f < LogScale
Exp10Frac(f) == MulS(Decades[f \div 10000 + 1], ExpSmall(MulS(f % 10000, Ln10Fix)))

\* 10^(ex / LogScale)
Pow10Fix(ex) == Norm(Exp10Frac(ex % LogScale), ex \div LogScale - 5)

\* a ** (yn / yd), a > 0, yd > 0
FPow[a \in Floats, yn \in Int, yd \in Int] == Pow10Fix((Log10Fix(a) * yn) \div yd)

\* |a| * LogScale to the nearest integer, |a| < 10
FixOf(a) ==
    IF a.e >= 0 - 5 THEN Abs(a.m) * Pow10(a.e + 5)
    ELSE IF a.e < 0 - 14 THEN 0
    ELSE DivRound(Abs(a.m), Pow10(0 - 5 - a.e))

\* math.exp, -10 < a <= 0
FExp[a \in Floats] == Pow10Fix(0 - MulS(FixOf(a), Log10EFix))

(***************************************************************************)
(* FuelCatalog: data/fuels.json, the table every calculator loads          *)
(***************************************************************************)
CatalogFuels == {"natural_gas", "methane", "propane"}

FuelProperties(fuel_type) ==
    CASE fuel_type = "methane" ->
           [lower_heating_value_mass |-> F(5, 7), air_fuel_ratio_mass |-> F(172, -1),
            molecular_weight |-> F(1604, -2), density |-> F(717, -3)]
      [] fuel_type = "natural_gas" ->
           [lower_heating_value_mass |-> F(475, 5), air_fuel_ratio_mass |-> F(167, -1),
            molecular_weight |-> F(175, -1), density |-> F(78, -2)]
      [] OTHER ->
           [lower_heating_value_mass |-> F(4635, 4), air_fuel_ratio_mass |-> F(156, -1),
            molecular_weight |-> F(441, -1), density |-> F(188, -2)]

CatalogConstants ==
    [universal_gas_constant |-> F(8314, -3), standard_pressure |-> F(101325, 0),
     standard_temperature |-> F(27315, -2), air_molecular_weight |-> F(2897, -2),
     stefan_boltzmann_constant |-> F(567, -10)]

Raise(kind) == [ok |-> FALSE, error |-> kind]

(***************************************************************************)
(* combustion.py                                                           *)
(***************************************************************************)
\* mutant: the air-fuel ratio of the fuel is left out
calculate_stoichiometric_air_NoRatio(fuel_type, fuel_flow_rate) ==
    fuel_flow_rate

calculate_stoichiometric_air(fuel_type, fuel_flow_rate) ==
    FMul[fuel_flow_rate, FuelProperties(fuel_type).air_fuel_ratio_mass]

_calculate_adiabatic_temperature(fuel_type, excess_air_ratio) ==
    LET base_temperature == F(2200, 0)
        excess_air_correction ==
            FSub[F(1, 0), FMul[FSub[excess_air_ratio, F(1, 0)], F(3, -1)]]
    IN  FAdd[FMul[base_temperature, excess_air_correction],
             CatalogConstants.standard_temperature]

_calculate_flue_gas_composition(fuel_type, excess_air_ratio) ==
    LET co2_stoich == IF fuel_type = "propane" THEN F(14, 0) ELSE F(12, 0)
        excess_air_percent == FMul[FSub[excess_air_ratio, F(1, 0)], F(100, 0)]
    IN  [co2_percent |-> FDiv[co2_stoich, excess_air_ratio],
         o2_percent  |-> FDiv[FMul[excess_air_percent, F(21, -2)], excess_air_ratio]]

\* lines 143-167: the result record; actual_air_flow and comp are the locals
CombustionResults(fuel_type, fuel_flow_rate, excess_air_ratio, actual_air_flow, comp) ==
    [ok |-> TRUE,
     fuel_flow_rate |-> fuel_flow_rate,
     air_flow_rate |-> actual_air_flow,
     flue_gas_flow_rate |-> FAdd[fuel_flow_rate, actual_air_flow],
     adiabatic_flame_temperature |->
         _calculate_adiabatic_temperature(fuel_type, excess_air_ratio),
     heat_release_rate |->
         FMul[fuel_flow_rate, FuelProperties(fuel_type).lower_heating_value_mass],
     excess_air_ratio |-> excess_air_ratio,
     co2_volume_percent |-> comp.co2_percent,
     o2_volume_percent |-> comp.o2_percent]

\* mutant: an excess air ratio of exactly 1.0 is rejected
calculate_combustion_products_StrictExcessAir(fuel_type, fuel_flow_rate, excess_air_ratio) ==
    IF fuel_type \notin CatalogFuels THEN Raise("UnknownFuel")
    ELSE IF FLe[fuel_flow_rate, Zero] THEN Raise("InvalidFlowRate")
    ELSE IF FLe[excess_air_ratio, F(1, 0)] THEN Raise("InvalidExcessAir")
    ELSE CombustionResults(
             fuel_type, fuel_flow_rate, excess_air_ratio,
             FMul[calculate_stoichiometric_air(fuel_type, fuel_flow_rate),
                  excess_air_ratio],
             _calculate_flue_gas_composition(fuel_type, excess_air_ratio))

calculate_combustion_products(fuel_type, fuel_flow_rate, excess_air_ratio) ==
    IF fuel_type \notin CatalogFuels THEN Raise("UnknownFuel")
    ELSE IF FLe[fuel_flow_rate, Zero] THEN Raise("InvalidFlowRate")
    ELSE IF FLt[excess_air_ratio, F(1, 0)] THEN Raise("InvalidExcessAir")
    ELSE CombustionResults(
             fuel_type, fuel_flow_rate, excess_air_ratio,
             FMul[calculate_stoichiometric_air(fuel_type, fuel_flow_rate),
                  excess_air_ratio],
             _calculate_flue_gas_composition(fuel_type, excess_air_ratio))

(***************************************************************************)
(* burner_design.py                                                        *)
(***************************************************************************)
MAX_GAS_VELOCITY == F(100, 0)

MIN_GAS_VELOCITY == F(5, 0)

MAX_HEAT_DENSITY == F(5, 6)

BURNER_PRESSURE_DROP_COEFF == F(8, -1)

Pi == F(3141593, -6)

NoVelocity == [m |-> 0, e |-> 0 - 999]

\* mutant: the density is taken at the standard pressure, not at the pressure given
_calculate_gas_density_StandardPressure(fuel_type, pressure, temperature) ==
    LET molecular_weight == FDiv[FuelProperties(fuel_type).molecular_weight, F(1000, 0)]
        gas_constant == CatalogConstants.universal_gas_constant
    IN  FDiv[FMul[CatalogConstants.standard_pressure, molecular_weight],
             FMul[gas_constant, temperature]]

_calculate_gas_density(fuel_type, pressure, temperature) ==
    LET molecular_weight == FDiv[FuelProperties(fuel_type).molecular_weight, F(1000, 0)]
        gas_constant == CatalogConstants.universal_gas_constant
    IN  FDiv[FMul[pressure, molecular_weight], FMul[gas_constant, temperature]]

_calculate_optimal_velocity(fuel_type, power) ==
    LET base_velocity == IF fuel_type = "propane" THEN F(15, 0) ELSE F(20, 0)
        power_factor == FMin[F(2, 0), FPow[FDiv[power, F(100000, 0)], 3, 10]]
        optimal_velocity == FMul[base_velocity, power_factor]
    IN  FMax[MIN_GAS_VELOCITY, FMin[MAX_GAS_VELOCITY, optimal_velocity]]

_calculate_burner_pressure_drop(gas_density, velocity, diameter) ==
    FDiv[FMul[FMul[BURNER_PRESSURE_DROP_COEFF, gas_density], FMul[velocity, velocity]],
         F(2, 0)]

\* mutant: the lower limit of the flame length is missing
FlameLengthAt_NoLower(burner_diameter, reynolds, c_constant) ==
    FMin[FMul[burner_diameter, F(50, 0)],
         FMul[FMul[c_constant, FPow[reynolds, 1, 2]], burner_diameter]]

\* lines 301-307: the correlation and its clamp to [5 d, 50 d]
FlameLengthAt(burner_diameter, reynolds, c_constant) ==
    FMax[FMul[burner_diameter, F(5, 0)],
         FMin[FMul[burner_diameter, F(50, 0)],
              FMul[FMul[c_constant, FPow[reynolds, 1, 2]], burner_diameter]]]

_calculate_flame_length(burner_diameter, gas_velocity, fuel_type) ==
    FlameLengthAt(
        burner_diameter,
        FDiv[FMul[FMul[FuelProperties(fuel_type).density, gas_velocity],
                  burner_diameter],
             F(15, -6)],
        IF fuel_type \in {"natural_gas", "methane"} THEN F(2, -1) ELSE F(25, -2))

\* mutant: the upper clamp is missing
ClampVelocity_NoUpper(target_velocity) ==
    IF FLt[target_velocity, MIN_GAS_VELOCITY] THEN MIN_GAS_VELOCITY
    ELSE target_velocity

\* lines 136-140: the velocity actually used
ClampVelocity(target_velocity) ==
    IF FLt[target_velocity, MIN_GAS_VELOCITY] THEN MIN_GAS_VELOCITY
    ELSE IF FGt[target_velocity, MAX_GAS_VELOCITY] THEN MAX_GAS_VELOCITY
    ELSE target_velocity

\* mutant: the operands of the comparison are swapped
SupplyPressureInsufficient_Swapped(required_supply_pressure, supply_pressure) ==
    FGt[supply_pressure, required_supply_pressure]

\* line 155: the supply cannot deliver the required pressure
SupplyPressureInsufficient(required_supply_pressure, supply_pressure) ==
    FGt[required_supply_pressure, supply_pressure]

\* mutant: the cap is ten times too high
HeatDensityExcessive_WrongCap(heat_release_density) ==
    FGt[heat_release_density, F(5, 7)]

\* line 165: the heat release density is over the cap
HeatDensityExcessive(heat_release_density) ==
    FGt[heat_release_density, MAX_HEAT_DENSITY]

\* lines 117, 128-140: fuel flow, gas density at 20 C and the velocity used
DesignBurnerFlow(v) ==
    v @@ [fuel_flow_rate |->
              FDiv[v.required_power, FuelProperties(v.fuel_type).lower_heating_value_mass],
          gas_density |-> _calculate_gas_density(v.fuel_type, v.supply_pressure, F(29315, -2)),
          gas_velocity |->
              ClampVelocity(IF v.target_velocity = NoVelocity
                            THEN _calculate_optimal_velocity(v.fuel_type, v.required_power)
                            ELSE v.target_velocity)]

\* lines 122-124: the combustion calculation
DesignBurnerCombustion(v) ==
    v @@ [combustion |->
              calculate_combustion_products(v.fuel_type, v.fuel_flow_rate,
                                            v.excess_air_ratio)]

\* lines 143-144
DesignBurnerArea(v) ==
    v @@ [burner_area |-> FDiv[FDiv[v.fuel_flow_rate, v.gas_density], v.gas_velocity]]

\* lines 145, 163
DesignBurnerDiameter(v) ==
    v @@ [burner_diameter |-> FSqrt[FDiv[FMul[F(4, 0), v.burner_area], Pi]],
          heat_release_density |-> FDiv[v.required_power, v.burner_area]]

\* lines 148-150
DesignBurnerPressureDrop(v) ==
    v @@ [burner_pressure_drop |->
              _calculate_burner_pressure_drop(v.gas_density, v.gas_velocity,
                                              v.burner_diameter)]

\* line 153
DesignBurnerSupply(v) ==
    v @@ [required_supply_pressure |-> FMul[v.burner_pressure_drop, v.safety_factor]]

\* lines 155-189: the two checks and the result
DesignBurnerChecks(v) ==
    IF SupplyPressureInsufficient(v.required_supply_pressure, v.supply_pressure)
    THEN Raise("InsufficientSupplyPressure")
    ELSE IF HeatDensityExcessive(v.heat_release_density)
    THEN Raise("ExcessiveHeatDensity")
    ELSE [ok |-> TRUE,
          burner_diameter |-> v.burner_diameter,
          burner_area |-> v.burner_area,
          gas_velocity |-> v.gas_velocity,
          burner_pressure_drop |-> v.burner_pressure_drop,
          required_supply_pressure |-> v.required_supply_pressure,
          heat_release_density |-> v.heat_release_density,
          burner_length |-> FMul[v.burner_diameter, F(3, 0)],
          flame_length |->
              _calculate_flame_length(v.burner_diameter, v.gas_velocity, v.fuel_type)]

\* mutant: the outcome of the combustion calculation is not looked at
DesignBurnerSized_NoCombustionCheck(v) ==
    DesignBurnerChecks(DesignBurnerSupply(DesignBurnerPressureDrop(
        DesignBurnerDiameter(DesignBurnerArea(v)))))

\* lines 122-189, v holds the locals so far
DesignBurnerSized(v) ==
    IF ~v.combustion.ok THEN v.combustion
    ELSE DesignBurnerChecks(DesignBurnerSupply(DesignBurnerPressureDrop(
             DesignBurnerDiameter(DesignBurnerArea(v)))))

design_burner(safety_factor, fuel_type, required_power, supply_pressure, target_velocity, excess_air_ratio) ==
    IF FLe[required_power, Zero] THEN Raise("InvalidPower")
    ELSE IF FLe[supply_pressure, Zero] THEN Raise("InvalidPressure")
    ELSE IF fuel_type \notin CatalogFuels THEN Raise("UnknownFuel")
    ELSE DesignBurnerSized(DesignBurnerCombustion(DesignBurnerFlow(
             [safety_factor |-> safety_factor,
              fuel_type |-> fuel_type,
              required_power |-> required_power,
              supply_pressure |-> supply_pressure,
              target_velocity |-> target_velocity,
              excess_air_ratio |-> excess_air_ratio])))

\* mutant: the pressure drop is compared with the whole required supply pressure
burner_validate_design_NoMargin(design_results) ==
    [velocity_in_range |->
         /\ FLe[MIN_GAS_VELOCITY, design_results.gas_velocity]
         /\ FLe[design_results.gas_velocity, MAX_GAS_VELOCITY],
     heat_density_acceptable |->
         FLe[design_results.heat_release_density, MAX_HEAT_DENSITY],
     reasonable_dimensions |->
         /\ FLe[F(1, -3), design_results.burner_diameter]
         /\ FLe[design_results.burner_diameter, F(1, 0)]
         /\ FLe[F(1, -2), design_results.burner_length]
         /\ FLe[design_results.burner_length, F(5, 0)],
     pressure_drop_reasonable |->
         FLt[design_results.burner_pressure_drop, design_results.required_supply_pressure]]

\* lines 318-336
burner_validate_design(design_results) ==
    [velocity_in_range |->
         /\ FLe[MIN_GAS_VELOCITY, design_results.gas_velocity]
         /\ FLe[design_results.gas_velocity, MAX_GAS_VELOCITY],
     heat_density_acceptable |->
         FLe[design_results.heat_release_density, MAX_HEAT_DENSITY],
     reasonable_dimensions |->
         /\ FLe[F(1, -3), design_results.burner_diameter]
         /\ FLe[design_results.burner_diameter, F(1, 0)]
         /\ FLe[F(1, -2), design_results.burner_length]
         /\ FLe[design_results.burner_length, F(5, 0)],
     pressure_drop_reasonable |->
         FLt[design_results.burner_pressure_drop,
             FMul[design_results.required_supply_pressure, F(8, -1)]]]

\* lines 354-362
VelocityGuidance(validation, design_results) ==
    IF validation.velocity_in_range THEN <<>>
    ELSE IF FLt[design_results.gas_velocity, MIN_GAS_VELOCITY]
    THEN <<"gas velocity too low">>
    ELSE <<"gas velocity too high">>

\* lines 350-377
BurnerGuidance(validation, design_results) ==
    VelocityGuidance(validation, design_results)
      \o (IF ~validation.heat_density_acceptable
          THEN <<"heat density too high">> ELSE <<>>)
      \o (IF FGt[design_results.heat_release_density, F(3, 6)]
          THEN <<"additional cooling">> ELSE <<>>)
      \o (IF FGt[design_results.flame_length,
                 FMul[design_results.burner_length, F(10, 0)]]
          THEN <<"long flame">> ELSE <<>>)

burner_get_design_recommendations(design_results) ==
    BurnerGuidance(burner_validate_design(design_results), design_results)

(***************************************************************************)
(* chamber_design.py                                                       *)
(***************************************************************************)
MIN_RESIDENCE_TIME == F(1, -1)

MAX_RESIDENCE_TIME == F(10, 0)

MAX_VOLUME_HEAT_RATE == F(3, 6)

MIN_CHAMBER_DIAMETER == F(1, -1)

MAX_CHAMBER_DIAMETER == F(3, 0)

TYPICAL_LD_RATIO == F(3, 0)

_calculate_flue_gas_volume_flow(combustion_results, gas_temperature) ==
    LET gas_constant == CatalogConstants.universal_gas_constant
        pressure == CatalogConstants.standard_pressure
        molecular_weight == FDiv[CatalogConstants.air_molecular_weight, F(1000, 0)]
    IN  FDiv[FMul[FMul[combustion_results.flue_gas_flow_rate, gas_constant],
                  gas_temperature],
             FMul[pressure, molecular_weight]]

\* lines 277-281: length and area for the clamped diameter
ChamberDimensionsAt(diameter) ==
    [diameter |-> diameter,
     length |-> FMul[TYPICAL_LD_RATIO, diameter],
     area |-> FDiv[FMul[Pi, FMul[diameter, diameter]], F(4, 0)]]

_calculate_chamber_dimensions(volume) ==
    ChamberDimensionsAt(
        FMax[MIN_CHAMBER_DIAMETER,
             FMin[MAX_CHAMBER_DIAMETER,
                  FPow[FDiv[FMul[F(4, 0), volume], FMul[Pi, TYPICAL_LD_RATIO]], 1, 3]]])

\* lines 309-314: Dittus-Boelter above Re = 2300, the laminar value below
Nusselt(reynolds) ==
    IF FGt[reynolds, F(2300, 0)]
    THEN FMul[FMul[F(23, -3), FPow[reynolds, 8, 10]], FPow[F(7, -1), 4, 10]]
    ELSE F(366, -2)

_calculate_heat_transfer_coefficient(gas_temperature, chamber_diameter, mass_flow_rate) ==
    LET gas_velocity ==
            FDiv[mass_flow_rate,
                 FDiv[FMul[FMul[F(1, 0), Pi], FMul[chamber_diameter, chamber_diameter]],
                      F(4, 0)]]
        reynolds == FDiv[FMul[FMul[F(1, 0), gas_velocity], chamber_diameter], F(2, -5)]
        thermal_conductivity ==
            FAdd[F(5, -2), FMul[FSub[gas_temperature, F(27315, -2)], F(5, -5)]]
    IN  FDiv[FMul[Nusselt(reynolds), thermal_conductivity], chamber_diameter]

\* lines 351-361: heat flux through the three resistances in series
WallTemperatureAt(gas_temperature, ambient_temperature, r_convection, r_conduction, r_external) ==
    FSub[gas_temperature,
         FMul[FDiv[FSub[gas_temperature, ambient_temperature],
                   FAdd[FAdd[r_convection, r_conduction], r_external]],
              r_convection]]

_calculate_wall_temperature(gas_temperature, heat_transfer_coefficient, insulation_thickness, ambient_temperature) ==
    WallTemperatureAt(gas_temperature, ambient_temperature,
                      FDiv[F(1, 0), heat_transfer_coefficient],
                      FDiv[insulation_thickness, F(2, -1)],
                      FDiv[F(1, 0), F(10, 0)])

_calculate_chamber_surface_area(diameter, length) ==
    LET cylindrical_area == FMul[FMul[Pi, diameter], length]
        end_areas == FDiv[FMul[FMul[F(2, 0), Pi], FMul[diameter, diameter]], F(4, 0)]
    IN  FAdd[cylindrical_area, end_areas]

_calculate_heat_loss(surface_area, wall_temperature, ambient_temperature, insulation_thickness) ==
    LET insulation_conductivity == F(2, -1)
        h_external == F(10, 0)
        u_overall == FDiv[F(1, 0),
                          FAdd[FDiv[insulation_thickness, insulation_conductivity],
                               FDiv[F(1, 0), h_external]]]
    IN  FMul[FMul[u_overall, surface_area], FSub[wall_temperature, ambient_temperature]]

\* lines 165-170 and 176-178: dimensions and rate of the volume chamber_volume
ChamberRate(v, chamber_volume, resized) ==
    v @@ [chamber_volume |-> chamber_volume,
          resized |-> resized,
          dims |-> _calculate_chamber_dimensions(chamber_volume),
          volume_heat_release_rate |-> FDiv[v.required_power, chamber_volume]]

\* mutant: the volume is reset to power / cap whatever the first-pass rate is
CorrectiveResize_Always(v, sized) ==
    ChamberRate(v, FDiv[v.required_power, MAX_VOLUME_HEAT_RATE], TRUE)

\* lines 172-178: the one corrective resize of the chamber sized first
CorrectiveResize(v, sized) ==
    IF FGt[sized.volume_heat_release_rate, MAX_VOLUME_HEAT_RATE]
    THEN ChamberRate(v, FDiv[v.required_power, MAX_VOLUME_HEAT_RATE], TRUE)
    ELSE sized

\* line 181
ChamberResidence(v) ==
    v @@ [residence_time |-> FDiv[v.chamber_volume, v.flue_gas_volume_flow]]

\* lines 160-181: volume, dimensions, rate and residence time
SizeChamber(v) ==
    ChamberResidence(CorrectiveResize(v, ChamberRate(
        v,
        FMul[FMul[v.flue_gas_volume_flow, v.target_residence_time], v.safety_factor],
        FALSE)))

\* lines 148-153: fuel flow and combustion at 20 % excess air
DesignChamberCombustion(v) ==
    v @@ [combustion_results |->
              calculate_combustion_products(
                  v.fuel_type,
                  FDiv[v.required_power,
                       FuelProperties(v.fuel_type).lower_heating_value_mass],
                  F(12, -1))]

\* lines 156-158
DesignChamberFlow(v) ==
    v @@ [flue_gas_volume_flow |->
              _calculate_flue_gas_volume_flow(
                  v.combustion_results,
                  v.combustion_results.adiabatic_flame_temperature)]

\* lines 184-188
DesignChamberHeatTransfer(v) ==
    v @@ [heat_transfer_coefficient |->
              _calculate_heat_transfer_coefficient(
                  v.combustion_results.adiabatic_flame_temperature,
                  v.dims.diameter, v.combustion_results.flue_gas_flow_rate)]

\* lines 190-195
DesignChamberWall(v) ==
    v @@ [wall_temperature |->
              _calculate_wall_temperature(
                  v.combustion_results.adiabatic_flame_temperature,
                  v.heat_transfer_coefficient, v.wall_insulation_thickness,
                  v.ambient_temperature)]

\* lines 198-211
DesignChamberHeatLoss(v) ==
    v @@ [heat_loss_rate |->
              _calculate_heat_loss(
                  _calculate_chamber_surface_area(v.dims.diameter, v.dims.length),
                  v.wall_temperature, v.ambient_temperature,
                  v.wall_insulation_thickness)]

\* lines 210-227
ChamberDesignResults(v) ==
    [ok |-> TRUE,
     chamber_volume |-> v.chamber_volume,
     chamber_diameter |-> v.dims.diameter,
     chamber_length |-> v.dims.length,
     chamber_area |-> v.dims.area,
     residence_time |-> v.residence_time,
     heat_transfer_coefficient |-> v.heat_transfer_coefficient,
     wall_temperature |-> v.wall_temperature,
     heat_loss_rate |-> v.heat_loss_rate,
     thermal_efficiency |->
         FMul[FSub[F(1, 0), FDiv[v.heat_loss_rate, v.required_power]], F(100, 0)],
     volume_heat_release_rate |-> v.volume_heat_release_rate]

\* lines 155-227, v holds the locals so far
DesignChamberSized(v) ==
    IF ~v.combustion_results.ok THEN v.combustion_results
    ELSE ChamberDesignResults(DesignChamberHeatLoss(DesignChamberWall(
             DesignChamberHeatTransfer(SizeChamber(DesignChamberFlow(v))))))

\* mutant: the two ends of the residence time range are rejected as well
design_chamber_StrictBounds(safety_factor, fuel_type, required_power, target_residence_time, wall_insulation_thickness, ambient_temperature) ==
    IF FLe[required_power, Zero] THEN Raise("InvalidPower")
    ELSE IF FLe[target_residence_time, MIN_RESIDENCE_TIME]
    THEN Raise("ResidenceTimeTooShort")
    ELSE IF FGe[target_residence_time, MAX_RESIDENCE_TIME]
    THEN Raise("ResidenceTimeTooLong")
    ELSE IF fuel_type \notin CatalogFuels THEN Raise("UnknownFuel")
    ELSE DesignChamberSized(DesignChamberCombustion(
             [safety_factor |-> safety_factor,
              fuel_type |-> fuel_type,
              required_power |-> required_power,
              target_residence_time |-> target_residence_time,
              wall_insulation_thickness |-> wall_insulation_thickness,
              ambient_temperature |-> ambient_temperature]))

design_chamber(safety_factor, fuel_type, required_power, target_residence_time, wall_insulation_thickness, ambient_temperature) ==
    IF FLe[required_power, Zero] THEN Raise("InvalidPower")
    ELSE IF FLt[target_residence_time, MIN_RESIDENCE_TIME]
    THEN Raise("ResidenceTimeTooShort")
    ELSE IF FGt[target_residence_time, MAX_RESIDENCE_TIME]
    THEN Raise("ResidenceTimeTooLong")
    ELSE IF fuel_type \notin CatalogFuels THEN Raise("UnknownFuel")
    ELSE DesignChamberSized(DesignChamberCombustion(
             [safety_factor |-> safety_factor,
              fuel_type |-> fuel_type,
              required_power |-> required_power,
              target_residence_time |-> target_residence_time,
              wall_insulation_thickness |-> wall_insulation_thickness,
              ambient_temperature |-> ambient_temperature]))

\* lines 462-483
chamber_validate_design(design_results) ==
    [residence_time_adequate |->
         /\ FLe[MIN_RESIDENCE_TIME, design_results.residence_time]
         /\ FLe[design_results.residence_time, MAX_RESIDENCE_TIME],
     volume_heat_rate_acceptable |->
         FLe[design_results.volume_heat_release_rate, MAX_VOLUME_HEAT_RATE],
     dimensions_reasonable |->
         /\ FLe[MIN_CHAMBER_DIAMETER, design_results.chamber_diameter]
         /\ FLe[design_results.chamber_diameter, MAX_CHAMBER_DIAMETER],
     efficiency_acceptable |-> FGe[design_results.thermal_efficiency, F(70, 0)],
     wall_temperature_safe |-> FLe[design_results.wall_temperature, F(1800, 0)]]

\* lines 501-509
ResidenceGuidance(validation, design_results) ==
    IF validation.residence_time_adequate THEN <<>>
    ELSE IF FLt[design_results.residence_time, MIN_RESIDENCE_TIME]
    THEN <<"residence time too short">>
    ELSE <<"residence time too long">>

\* lines 497-529
ChamberGuidance(validation, design_results) ==
    ResidenceGuidance(validation, design_results)
      \o (IF ~validation.volume_heat_rate_acceptable
          THEN <<"volume heat rate too high">> ELSE <<>>)
      \o (IF ~validation.efficiency_acceptable
          THEN <<"low thermal efficiency">> ELSE <<>>)
      \o (IF FGt[design_results.wall_temperature, F(1600, 0)]
          THEN <<"high wall temperature">> ELSE <<>>)
      \o (IF FGt[FDiv[design_results.chamber_length, design_results.chamber_diameter],
                 F(5, 0)]
          THEN <<"very long chamber">> ELSE <<>>)

chamber_get_design_recommendations(design_results) ==
    ChamberGuidance(chamber_validate_design(design_results), design_results)

(***************************************************************************)
(* pressure_losses.py                                                      *)
(***************************************************************************)
Materials == {"steel_new", "steel_used", "galvanized", "cast_iron", "copper",
              "plastic", "stainless_steel"}

get_pipe_roughness(material) ==
    CASE material \in {"steel_new", "stainless_steel"} -> F(45, -6)
      [] material \in {"steel_used", "galvanized"} -> F(15, -5)
      [] material = "cast_iron" -> F(26, -5)
      [] material \in {"copper", "plastic"} -> F(15, -7)
      [] OTHER -> F(15, -5)

ColebrookIterations == 10

ColebrookTolerance == F(1, -6)

\* x ** (-2)
InverseSquare(x) == FDiv[F(1, 0), FMul[x, x]]

\* one evaluation of the fixed-point map
ColebrookStep(f, reynolds, relative_roughness) ==
    InverseSquare(
        FMul[F(0 - 2, 0),
             FLog10[FAdd[FDiv[relative_roughness, F(37, -1)],
                         FDiv[F(251, -2), FMul[reynolds, FSqrt[f]]]]]])

\* lines 340-350: left iterations remain, f is the current iterate and f_new
\* the next one; convergence keeps the current iterate
RECURSIVE ColebrookLoop(_, _, _, _, _)
ColebrookLoop(f, f_new, left, reynolds, relative_roughness) ==
    IF left = 0 THEN f
    ELSE IF FLt[FAbs[FSub[f_new, f]], ColebrookTolerance] THEN f
    ELSE ColebrookLoop(f_new, ColebrookStep(f_new, reynolds, relative_roughness),
                       left - 1, reynolds, relative_roughness)

\* line 337: the Blasius value starts the iteration
ColebrookFrom(f, reynolds, relative_roughness) ==
    ColebrookLoop(f, ColebrookStep(f, reynolds, relative_roughness),
                  ColebrookIterations, reynolds, relative_roughness)

_colebrook_white(reynolds, relative_roughness) ==
    ColebrookFrom(FMul[F(316, -3), FPow[reynolds, 0 - 1, 4]], reynolds,
                  relative_roughness)

\* mutant: the transition region ends at Re = 3000
_calculate_friction_factor_EarlyTurbulent(reynolds, roughness, diameter) ==
    LET relative_roughness == FDiv[roughness, diameter]
    IN  IF FLt[reynolds, F(2300, 0)] THEN FDiv[F(64, 0), reynolds]
        ELSE IF FLt[reynolds, F(3000, 0)]
        THEN LET f_laminar == FDiv[F(64, 0), F(2300, 0)]
                 f_turbulent == _colebrook_white(F(4000, 0), relative_roughness)
             IN  FAdd[f_laminar,
                      FDiv[FMul[FSub[f_turbulent, f_laminar],
                                FSub[reynolds, F(2300, 0)]],
                           F(4000 - 2300, 0)]]
        ELSE _colebrook_white(reynolds, relative_roughness)

_calculate_friction_factor(reynolds, roughness, diameter) ==
    LET relative_roughness == FDiv[roughness, diameter]
    IN  IF FLt[reynolds, F(2300, 0)] THEN FDiv[F(64, 0), reynolds]
        ELSE IF FLt[reynolds, F(4000, 0)]
        THEN LET f_laminar == FDiv[F(64, 0), F(2300, 0)]
                 f_turbulent == _colebrook_white(F(4000, 0), relative_roughness)
             IN  FAdd[f_laminar,
                      FDiv[FMul[FSub[f_turbulent, f_laminar],
                                FSub[reynolds, F(2300, 0)]],
                           F(4000 - 2300, 0)]]
        ELSE _colebrook_white(reynolds, relative_roughness)

\* lines 286-293: the Darcy-Weisbach loss and the returned tuple
PipeFrictionLoss(segment, reynolds, friction_factor, velocity_pressure) ==
    [friction_loss |->
         FMul[FMul[friction_factor, FDiv[segment.length, segment.diameter]],
              velocity_pressure],
     reynolds |-> reynolds,
     friction_factor |-> friction_factor,
     velocity_pressure |-> velocity_pressure]

\* lines 278-283: Reynolds number and friction factor
PipeFrictionAtReynolds(segment, reynolds, velocity_pressure) ==
    PipeFrictionLoss(
        segment, reynolds,
        _calculate_friction_factor(reynolds, segment.roughness, segment.diameter),
        velocity_pressure)

\* lines 278 and 286: Reynolds number and velocity pressure
PipeFrictionAtVelocity(segment, gas_density, gas_viscosity, velocity) ==
    PipeFrictionAtReynolds(
        segment,
        FDiv[FMul[FMul[gas_density, velocity], segment.diameter], gas_viscosity],
        FMul[FMul[F(5, -1), gas_density], FMul[velocity, velocity]])

_calculate_pipe_friction_loss(segment, mass_flow_rate, gas_density, gas_viscosity) ==
    PipeFrictionAtVelocity(
        segment, gas_density, gas_viscosity,
        FDiv[mass_flow_rate,
             FMul[gas_density,
                  FDiv[FMul[Pi, FMul[segment.diameter, segment.diameter]], F(4, 0)]]])

\* lines 367-376: loss through one fitting by the K-factor method
FittingLossAt(fitting, gas_density, velocity) ==
    FMul[FMul[fitting.loss_coefficient,
              FMul[FMul[F(5, -1), gas_density], FMul[velocity, velocity]]],
         F(fitting.quantity, 0)]

_calculate_fitting_loss(fitting, mass_flow_rate, gas_density) ==
    FittingLossAt(
        fitting, gas_density,
        FDiv[mass_flow_rate,
             FMul[gas_density,
                  FDiv[FMul[Pi, FMul[fitting.diameter, fitting.diameter]], F(4, 0)]]])

\* lines 392-394: sum(segment.elevation_change for segment in pipe_segments)
RECURSIVE SumElevationChange(_, _, _)
SumElevationChange(pipe_segments, i, total) ==
    IF i > Len(pipe_segments) THEN total
    ELSE SumElevationChange(pipe_segments, i + 1,
                            FAdd[total, pipe_segments[i].elevation_change])

\* mutant: the gravitational acceleration is 9.8
_calculate_elevation_losses_WrongG(pipe_segments, gas_density) ==
    FMul[FMul[gas_density, F(98, -1)], SumElevationChange(pipe_segments, 1, Zero)]

_calculate_elevation_losses(pipe_segments, gas_density) ==
    FMul[FMul[gas_density, F(981, -2)], SumElevationChange(pipe_segments, 1, Zero)]

\* max(s.diameter for s in pipe_segments), pipe_segments not empty
MaxSegmentDiameter(pipe_segments) ==
    CHOOSE d \in {pipe_segments[i].diameter : i \in 1 .. Len(pipe_segments)} :
        \A i \in 1 .. Len(pipe_segments) : FLe[pipe_segments[i].diameter, d]

\* lines 186-189: the accumulators before the first segment
NoSegments ==
    [total_friction_loss |-> Zero, main_reynolds |-> Zero,
     main_friction_factor |-> Zero, main_velocity_pressure |-> Zero]

\* lines 197-203: add the loss of a segment; the main pipe's values are kept
SegmentAccumulate(acc, is_main, loss) ==
    IF is_main
    THEN [total_friction_loss |-> FAdd[acc.total_friction_loss, loss.friction_loss],
          main_reynolds |-> loss.reynolds,
          main_friction_factor |-> loss.friction_factor,
          main_velocity_pressure |-> loss.velocity_pressure]
    ELSE [acc EXCEPT !.total_friction_loss =
                         FAdd[acc.total_friction_loss, loss.friction_loss]]

\* lines 191-203: the loop over the pipe segments from the i-th on
RECURSIVE SegmentLoop(_, _, _, _, _, _)
SegmentLoop(pipe_segments, i, acc, mass_flow_rate, gas_density, gas_viscosity) ==
    IF i > Len(pipe_segments) THEN acc
    ELSE SegmentLoop(
             pipe_segments, i + 1,
             SegmentAccumulate(
                 acc,
                 FGe[pipe_segments[i].diameter, MaxSegmentDiameter(pipe_segments)],
                 _calculate_pipe_friction_loss(pipe_segments[i], mass_flow_rate,
                                               gas_density, gas_viscosity)),
             mass_flow_rate, gas_density, gas_viscosity)

\* lines 206-211: the loop over the fittings from the i-th on
RECURSIVE FittingLoop(_, _, _, _, _)
FittingLoop(fittings, i, total_minor_loss, mass_flow_rate, gas_density) ==
    IF i > Len(fittings) THEN total_minor_loss
    ELSE FittingLoop(
             fittings, i + 1,
             FAdd[total_minor_loss,
                  _calculate_fitting_loss(fittings[i], mass_flow_rate, gas_density)],
             mass_flow_rate, gas_density)

NoBurnerResults == [ok |-> FALSE, error |-> "None"]

\* lines 219-221: the burner's pressure drop, 0 without burner results
BurnerPressureLoss(burner_results) ==
    IF burner_results # NoBurnerResults THEN burner_results.burner_pressure_drop
    ELSE Zero

\* mutant: the burner loss is left out of the sum
TotalPressureLoss_NoBurner(total_friction_loss, total_minor_loss, total_elevation_loss, burner_pressure_loss) ==
    FAdd[FAdd[total_friction_loss, total_minor_loss], total_elevation_loss]

\* lines 224-229
TotalPressureLoss(total_friction_loss, total_minor_loss, total_elevation_loss, burner_pressure_loss) ==
    FAdd[FAdd[FAdd[total_friction_loss, total_minor_loss], total_elevation_loss],
         burner_pressure_loss]

\* lines 232-251: supply pressure, system K-factor and the result
SystemLossResults(safety_factor, acc, total_minor_loss, total_elevation_loss, burner_pressure_loss, total_pressure_loss) ==
    [ok |-> TRUE,
     total_pressure_loss |-> total_pressure_loss,
     friction_losses |-> acc.total_friction_loss,
     minor_losses |-> total_minor_loss,
     elevation_losses |-> total_elevation_loss,
     burner_pressure_loss |-> burner_pressure_loss,
     required_supply_pressure |-> FMul[total_pressure_loss, safety_factor],
     system_resistance_coefficient |->
         IF FGt[acc.main_velocity_pressure, Zero]
         THEN FDiv[total_pressure_loss, acc.main_velocity_pressure]
         ELSE Zero,
     reynolds_number |-> acc.main_reynolds,
     friction_factor |-> acc.main_friction_factor,
     velocity_pressure |-> acc.main_velocity_pressure]

\* lines 185-251 for the four partial losses
SystemLossTotals(safety_factor, acc, total_minor_loss, total_elevation_loss, burner_pressure_loss) ==
    SystemLossResults(
        safety_factor, acc, total_minor_loss, total_elevation_loss,
        burner_pressure_loss,
        TotalPressureLoss(acc.total_friction_loss, total_minor_loss,
                          total_elevation_loss, burner_pressure_loss))

\* mutant: the segment list is checked before the flow rate and the density
SystemInputError_SegmentsFirst(pipe_segments, mass_flow_rate, gas_density) ==
    IF pipe_segments = <<>> THEN "EmptySegmentList"
    ELSE IF FLe[mass_flow_rate, Zero] THEN "InvalidFlowRate"
    ELSE IF FLe[gas_density, Zero] THEN "InvalidDensity"
    ELSE "None"

\* lines 176-183: the first violated check, "None" if the inputs are valid
SystemInputError(pipe_segments, mass_flow_rate, gas_density) ==
    IF FLe[mass_flow_rate, Zero] THEN "InvalidFlowRate"
    ELSE IF FLe[gas_density, Zero] THEN "InvalidDensity"
    ELSE IF pipe_segments = <<>> THEN "EmptySegmentList"
    ELSE "None"

calculate_system_pressure_losses(safety_factor, pipe_segments, fittings, mass_flow_rate, gas_density, gas_viscosity, burner_results) ==
    IF SystemInputError(pipe_segments, mass_flow_rate, gas_density) # "None"
    THEN Raise(SystemInputError(pipe_segments, mass_flow_rate, gas_density))
    ELSE SystemLossTotals(
             safety_factor,
             SegmentLoop(pipe_segments, 1, NoSegments, mass_flow_rate, gas_density,
                         gas_viscosity),
             FittingLoop(fittings, 1, Zero, mass_flow_rate, gas_density),
             _calculate_elevation_losses(pipe_segments, gas_density),
             BurnerPressureLoss(burner_results))

\* range(25, 500, 5), in millimetres
GridStart == 25

GridStop == 500

GridStep == 5

Diameters == {d \in GridStart .. (GridStop - 1) : (d - GridStart) % GridStep = 0}

Inf == [m |-> 9999, e |-> 999]

NoResults == [found |-> FALSE]

\* lines 498-499: velocity in a pipe of diameter d millimetres
GridVelocity(d, mass_flow_rate, gas_density) ==
    LET diameter == FDiv[F(d, 0), F(1000, 0)]
        area == FDiv[FMul[Pi, FMul[diameter, diameter]], F(4, 0)]
    IN  FDiv[mass_flow_rate, FMul[gas_density, area]]

\* mutant: the pressure-loss test is missing
ScanAccept_NoLossTest(best, diameter, velocity, loss, max_pressure_loss) ==
    IF ~best.found \/ FLt[diameter, best.diameter]
    THEN [found |-> TRUE,
          diameter |-> diameter,
          velocity |-> velocity,
          pressure_loss |-> loss.friction_loss,
          reynolds_number |-> loss.reynolds,
          friction_factor |-> loss.friction_factor]
    ELSE best

\* lines 517-527: keep the diameter if its loss is acceptable and it is smaller
ScanAccept(best, diameter, velocity, loss, max_pressure_loss) ==
    IF FLe[loss.friction_loss, max_pressure_loss]
       /\ (~best.found \/ FLt[diameter, best.diameter])
    THEN [found |-> TRUE,
          diameter |-> diameter,
          velocity |-> velocity,
          pressure_loss |-> loss.friction_loss,
          reynolds_number |-> loss.reynolds,
          friction_factor |-> loss.friction_factor]
    ELSE best

\* lines 502-515: skip on the velocity limit, else compute the friction loss
ScanDiameter(best, diameter, velocity, length, mass_flow_rate, gas_density, max_pressure_loss, roughness, max_velocity) ==
    IF FGt[velocity, max_velocity] THEN best
    ELSE ScanAccept(best, diameter, velocity,
                    _calculate_pipe_friction_loss(
                        [length |-> length, diameter |-> diameter,
                         roughness |-> roughness],
                        mass_flow_rate, gas_density, F(15, -6)),
                    max_pressure_loss)

\* lines 497-527: one pass of the loop body for the diameter d millimetres
ScanStep(best, d, length, mass_flow_rate, gas_density, max_pressure_loss, roughness, max_velocity) ==
    ScanDiameter(best, FDiv[F(d, 0), F(1000, 0)],
                 GridVelocity(d, mass_flow_rate, gas_density),
                 length, mass_flow_rate, gas_density, max_pressure_loss, roughness,
                 max_velocity)

MaxDiameter == CHOOSE d \in Diameters : \A o \in Diameters : o <= d

\* mutant: the failure record is not marked with the warning
OptimizeResult_NoWarning(best_results, mass_flow_rate, gas_density) ==
    IF ~best_results.found
    THEN [warning |-> FALSE,
          diameter |-> FDiv[F(MaxDiameter, 0), F(1000, 0)],
          velocity |-> GridVelocity(MaxDiameter, mass_flow_rate, gas_density),
          pressure_loss |-> Inf,
          reynolds_number |-> Zero,
          friction_factor |-> Zero]
    ELSE [warning |-> FALSE,
          diameter |-> best_results.diameter,
          velocity |-> best_results.velocity,
          pressure_loss |-> best_results.pressure_loss,
          reynolds_number |-> best_results.reynolds_number,
          friction_factor |-> best_results.friction_factor]

\* lines 529-541: the record returned after the scan
OptimizeResult(best_results, mass_flow_rate, gas_density) ==
    IF ~best_results.found
    THEN [warning |-> TRUE,
          diameter |-> FDiv[F(MaxDiameter, 0), F(1000, 0)],
          velocity |-> GridVelocity(MaxDiameter, mass_flow_rate, gas_density),
          pressure_loss |-> Inf,
          reynolds_number |-> Zero,
          friction_factor |-> Zero]
    ELSE [warning |-> FALSE,
          diameter |-> best_results.diameter,
          velocity |-> best_results.velocity,
          pressure_loss |-> best_results.pressure_loss,
          reynolds_number |-> best_results.reynolds_number,
          friction_factor |-> best_results.friction_factor]

(***************************************************************************)
(* radiation.py                                                            *)
(***************************************************************************)
stefan_boltzmann == CatalogConstants.stefan_boltzmann_constant

CO2_ABSORPTION_COEFF == F(2, -1)

H2O_ABSORPTION_COEFF == F(1, -1)

SOOT_ABSORPTION_COEFF == F(1200, 0)

\* the defaults _load_material_data returns when data/fuels.json cannot be read
DefaultMaterialData ==
    [steel_oxidized |-> F(79, -2), refractory_brick |-> F(75, -2),
     flame_gases |-> F(2, -1), soot_particles |-> F(85, -2)]

\* data.get("material_properties", {}) of a file without that key
NoMaterialData == <<>>

\* x ** 4, by squaring twice
Fourth[x \in Floats] == FMul[FMul[x, x], FMul[x, x]]

\* math.pi * (diameter / 2) ** 2 * length
CylinderVolume(diameter, length) ==
    FMul[FMul[Pi, FMul[FDiv[diameter, F(2, 0)], FDiv[diameter, F(2, 0)]]], length]

\* math.pi * diameter * length + 2 * math.pi * (diameter / 2) ** 2
ClosedCylinderArea(diameter, length) ==
    FAdd[FMul[FMul[Pi, diameter], length],
         FMul[FMul[F(2, 0), Pi],
              FMul[FDiv[diameter, F(2, 0)], FDiv[diameter, F(2, 0)]]]]

_calculate_mean_beam_length(diameter, length) ==
    FDiv[FMul[F(36, -1), CylinderVolume(diameter, length)],
         ClosedCylinderArea(diameter, length)]

\* lines 269-277: the volume fractions of CO2 and H2O
GasFractions(fuel_type, excess_air_ratio) ==
    IF fuel_type = "propane"
    THEN [co2 |-> FDiv[F(14, -2), excess_air_ratio],
          h2o |-> FDiv[F(16, -2), excess_air_ratio]]
    ELSE [co2 |-> FDiv[F(12, -2), excess_air_ratio],
          h2o |-> FDiv[F(18, -2), excess_air_ratio]]

\* fraction * pressure / 101325 with pressure = 101325
PartialPressure(fraction) == FDiv[FMul[fraction, F(101325, 0)], F(101325, 0)]

\* 1 - math.exp(-coefficient * amount * beam_length)
Absorbed(coefficient, amount, beam_length) ==
    FSub[F(1, 0), FExp[FMul[FMul[FNeg[coefficient], amount], beam_length]]]

\* line 290
GasEmissivity(emissivity_co2, emissivity_h2o) ==
    FSub[FAdd[emissivity_co2, emissivity_h2o],
         FMul[FMul[F(15, -2), emissivity_co2], emissivity_h2o]]

\* lines 293-300
TotalEmissivity(gas_emissivity, soot_concentration, beam_length) ==
    IF FGt[soot_concentration, Zero]
    THEN FSub[F(1, 0),
              FMul[FSub[F(1, 0), gas_emissivity],
                   FSub[F(1, 0), Absorbed(SOOT_ABSORPTION_COEFF, soot_concentration,
                                          beam_length)]]]
    ELSE gas_emissivity

\* lines 303-305; a negative base makes ** return a complex number, which min()
\* cannot compare
CorrectedEmissivity(total_emissivity, temperature) ==
    IF FLt[temperature, Zero] THEN Raise("TypeError")
    ELSE [ok |-> TRUE,
          value |-> FMin[F(95, -2),
                         FMul[total_emissivity,
                              IF temperature = Zero THEN Zero
                              ELSE FPow[FDiv[temperature, F(1000, 0)], 1, 5]]]]

_calculate_flame_emissivity(temperature, beam_length, fuel_type, excess_air_ratio, soot_concentration) ==
    IF excess_air_ratio = Zero THEN Raise("ZeroDivisionError")
    ELSE CorrectedEmissivity(
             TotalEmissivity(
                 GasEmissivity(
                     Absorbed(CO2_ABSORPTION_COEFF,
                              PartialPressure(GasFractions(fuel_type, excess_air_ratio).co2),
                              beam_length),
                     Absorbed(H2O_ABSORPTION_COEFF,
                              PartialPressure(GasFractions(fuel_type, excess_air_ratio).h2o),
                              beam_length)),
                 soot_concentration, beam_length),
             temperature)

_get_wall_emissivity(material_data, material_type) ==
    IF material_type \in DOMAIN material_data THEN material_data[material_type]
    ELSE F(8, -1)

\* mutant: the interpolation rises by 0.3 instead of 0.2
_calculate_view_factor_cylinder_WrongSlope(diameter, length) ==
    IF FLt[FDiv[length, diameter], F(5, -1)] THEN F(7, -1)
    ELSE IF FGt[FDiv[length, diameter], F(5, 0)] THEN F(9, -1)
    ELSE FAdd[F(7, -1),
              FDiv[FMul[F(3, -1), FSub[FDiv[length, diameter], F(5, -1)]], F(45, -1)]]

_calculate_view_factor_cylinder(diameter, length) ==
    IF FLt[FDiv[length, diameter], F(5, -1)] THEN F(7, -1)
    ELSE IF FGt[FDiv[length, diameter], F(5, 0)] THEN F(9, -1)
    ELSE FAdd[F(7, -1),
              FDiv[FMul[F(2, -1), FSub[FDiv[length, diameter], F(5, -1)]], F(45, -1)]]

\* lines 378-380
EffectiveEmissivity(flame_emissivity, wall_emissivity, wall_area, effective_flame_area) ==
    FDiv[F(1, 0),
         FSub[FAdd[FDiv[F(1, 0), flame_emissivity],
                   FDiv[wall_area, FMul[effective_flame_area, wall_emissivity]]],
              F(1, 0)]]

\* mutant: the two temperatures change places
FlameToWallHeat_SwappedTemperatures(effective_flame_area, view_factor, emissivity_effective, flame_temperature, wall_temperature) ==
    FMax[Zero,
         FMul[FMul[FMul[FMul[stefan_boltzmann, effective_flame_area], view_factor],
                   emissivity_effective],
              FSub[Fourth[wall_temperature], Fourth[flame_temperature]]]]

\* lines 383-391
FlameToWallHeat(effective_flame_area, view_factor, emissivity_effective, flame_temperature, wall_temperature) ==
    FMax[Zero,
         FMul[FMul[FMul[FMul[stefan_boltzmann, effective_flame_area], view_factor],
                   emissivity_effective],
              FSub[Fourth[flame_temperature], Fourth[wall_temperature]]]]

_calculate_flame_to_wall_radiation(flame_volume, wall_area, flame_temperature, wall_temperature, flame_emissivity, wall_emissivity, view_factor) ==
    IF flame_emissivity = Zero THEN Raise("ZeroDivisionError")
    ELSE [ok |-> TRUE,
          value |-> FlameToWallHeat(
                        FPow[flame_volume, 2, 3], view_factor,
                        EffectiveEmissivity(flame_emissivity, wall_emissivity, wall_area,
                                            FPow[flame_volume, 2, 3]),
                        flame_temperature, wall_temperature)]

_calculate_surface_radiation(area, surface_temperature, ambient_temperature, surface_emissivity, ambient_absorptivity) ==
    FMax[Zero,
         FMul[FMul[FMul[stefan_boltzmann, area], surface_emissivity],
              FSub[Fourth[surface_temperature], Fourth[ambient_temperature]]]]

_calculate_outer_surface_area(inner_diameter, length, wall_thickness) ==
    ClosedCylinderArea(FAdd[inner_diameter, FMul[F(2, 0), wall_thickness]], length)

\* lines 154-160
RadiationEmissivity(v) ==
    v @@ [emissivity |->
              _calculate_flame_emissivity(
                  v.flame_temperature,
                  _calculate_mean_beam_length(v.chamber_diameter, v.chamber_length),
                  v.fuel_type, v.excess_air_ratio, v.soot_concentration)]

\* lines 166-175
RadiationGeometry(v) ==
    v @@ [wall_emissivity |-> _get_wall_emissivity(v.material_data, "refractory_brick"),
          view_factor_flame_wall |->
              _calculate_view_factor_cylinder(v.chamber_diameter, v.chamber_length),
          flame_volume |-> CylinderVolume(v.chamber_diameter, v.chamber_length),
          wall_area |-> FMul[FMul[Pi, v.chamber_diameter], v.chamber_length]]

\* lines 178-186
RadiationFlameToWall(v) ==
    v @@ [flame_to_wall |->
              _calculate_flame_to_wall_radiation(
                  v.flame_volume, v.wall_area, v.flame_temperature,
                  v.chamber_wall_temperature, v.emissivity.value, v.wall_emissivity,
                  v.view_factor_flame_wall)]

\* lines 206-214
RadiationEfficiency(total_radiation, max_theoretical_radiation) ==
    IF FGt[max_theoretical_radiation, Zero]
    THEN FMul[FDiv[total_radiation, max_theoretical_radiation], F(100, 0)]
    ELSE Zero

\* lines 189-226
RadiationResults(v) ==
    [ok |-> TRUE,
     total_radiation_heat_transfer |-> v.flame_to_wall.value,
     flame_to_wall_heat_transfer |-> v.flame_to_wall.value,
     wall_to_ambient_heat_transfer |->
         _calculate_surface_radiation(
             _calculate_outer_surface_area(v.chamber_diameter, v.chamber_length,
                                           F(1, -1)),
             v.chamber_wall_temperature, F(29315, -2), v.wall_emissivity, F(9, -1)),
     flame_emissivity |-> v.emissivity.value,
     wall_emissivity |-> v.wall_emissivity,
     flame_absorptivity |-> v.emissivity.value,
     view_factor_flame_wall |-> v.view_factor_flame_wall,
     radiation_efficiency |->
         RadiationEfficiency(
             v.flame_to_wall.value,
             FMul[FMul[stefan_boltzmann, v.wall_area],
                  FSub[Fourth[v.flame_temperature], Fourth[v.chamber_wall_temperature]]]),
     mean_beam_length |->
         _calculate_mean_beam_length(v.chamber_diameter, v.chamber_length)]

\* lines 178-226, v holds the locals so far
RadiationTransfer(v) ==
    IF ~v.flame_to_wall.ok THEN v.flame_to_wall ELSE RadiationResults(v)

\* lines 154-226, v holds the arguments
RadiationComputed(v) ==
    IF ~v.emissivity.ok THEN v.emissivity
    ELSE RadiationTransfer(RadiationFlameToWall(RadiationGeometry(v)))

\* lines 148-152
RadiationInputError(flame_temperature, chamber_wall_temperature, chamber_diameter, chamber_length) ==
    IF FLe[flame_temperature, chamber_wall_temperature]
    THEN "TemperatureOrderingViolation"
    ELSE IF FLe[chamber_diameter, Zero] \/ FLe[chamber_length, Zero]
    THEN "InvalidGeometry"
    ELSE "None"

calculate_flame_radiation(material_data, flame_temperature, chamber_wall_temperature, chamber_diameter, chamber_length, fuel_type, excess_air_ratio, soot_concentration) ==
    IF RadiationInputError(flame_temperature, chamber_wall_temperature,
                           chamber_diameter, chamber_length) # "None"
    THEN Raise(RadiationInputError(flame_temperature, chamber_wall_temperature,
                                   chamber_diameter, chamber_length))
    ELSE RadiationComputed(RadiationEmissivity(
             [material_data |-> material_data,
              flame_temperature |-> flame_temperature,
              chamber_wall_temperature |-> chamber_wall_temperature,
              chamber_diameter |-> chamber_diameter,
              chamber_length |-> chamber_length,
              fuel_type |-> fuel_type,
              excess_air_ratio |-> excess_air_ratio,
              soot_concentration |-> soot_concentration]))

(***************************************************************************)
(* Inputs of the calls                                                     *)
(***************************************************************************)
FuelIds == CatalogFuels \cup {"hydrogen"}

FlowRates == {F(0 - 1, -3), Zero, F(1, -3), F(2, -3), F(1, -2)}

ExcessAirRatios == {F(9, -1), F(1, 0), F(12, -1), F(15, -1), F(2, 0)}

BurnerSafetyFactors == {F(12, -1), F(125, -2), F(50, 0)}

Powers == {Zero, F(10, 0), F(500, 0), F(2000, 0), F(100000, 0)}

SupplyPressures == {F(0 - 100, 0), F(100, 0), F(1466, -1), F(1500, 0), F(3000, 0), F(8000, 0)}

TargetVelocities == {NoVelocity, F(2, 0), F(5, 0), F(20, 0), F(100, 0), F(120, 0)}

BurnerExcessAir == {F(9, -1), F(12, -1)}

ChamberSafetyFactors == {F(1, 0), F(15, -1)}

ChamberPowers == {Zero, F(500, 0), F(49000, 0), F(100000, 0), F(1, 6), F(1, 7)}

ResidenceTimes == {F(5, -2), F(1, -1), F(5, -1), F(7, 0), F(10, 0), F(11, 0)}

InsulationThicknesses == {F(1, -1)}

AmbientTemperatures == {F(29315, -2)}

Reynolds == {F(1000, 0), F(2299, 0), F(2300, 0), F(2500, 0), F(3000, 0), F(3500, 0),
             F(3999, 0), F(4000, 0), F(10000, 0), F(1, 5), F(1, 7), F(2, 8), F(3, 8)}

Roughnesses == {F(15, -7), F(45, -6), F(26, -5)}

PipeDiameters == {F(25, -3), F(5, -2), F(5, -1)}

PipeLengths == {F(10, 0)}

MassFlowRates == {F(2, -3), F(195, -3), F(1, 0)}

GasDensities == {F(8, -1), F(1, 0)}

MaxPressureLosses == {F(1, 0), F(1000, 0)}

OptMaterials == {"steel_new"}

MaxVelocities == {F(1, 0), F(15, 0)}

SystemSafetyFactors == {F(13, -1), F(15, -1), F(2, 0)}

Segment(length, diameter, elevation_change) ==
    [length |-> length, diameter |-> diameter, roughness |-> F(45, -6),
     material |-> "steel", elevation_change |-> elevation_change]

SegmentLists ==
    {<<>>,
     <<Segment(F(10, 0), F(5, -2), F(3, 0))>>,
     <<Segment(Zero, F(5, -2), F(3, 0))>>,
     <<Segment(F(10, 0), F(5, -2), F(5, 0)), Segment(F(5, 0), F(5, -2), F(0 - 2, 0))>>,
     <<Segment(F(5, 0), F(5, -2), Zero), Segment(F(10, 0), F(25, -3), Zero)>>}

Fittings(type, quantity, loss_coefficient) ==
    [type |-> type, quantity |-> quantity, loss_coefficient |-> loss_coefficient,
     diameter |-> F(5, -2)]

FittingLists ==
    {<<>>,
     <<Fittings("elbow_90_long", 2, F(6, -1))>>,
     <<Fittings("elbow_90_long", 2, F(6, -1)), Fittings("gate_valve_open", 1, F(15, -2))>>}

SystemMassFlowRates == {F(0 - 1, -3), Zero, F(2, -3), F(195, -3)}

SystemGasDensities == {Zero, F(8, -1), F(1, 0)}

BurnerResultsGiven == {NoBurnerResults, [ok |-> TRUE, burner_pressure_drop |-> F(500, 0)]}

FlameTemperatures == {F(0 - 100, 0), Zero, F(1000, 0), F(1800, 0)}

WallTemperatures == {F(0 - 200, 0), F(1000, 0), F(1200, 0)}

ChamberDiameters == {F(0 - 1, 0), Zero, F(1, -18), F(5, -1)}

ChamberLengths == {F(0 - 1, 0), F(1, -18), F(15, -1), F(3, 0)}

RadiationFuels == {"natural_gas", "propane"}

RadiationExcessAir == {F(12, -1)}

SootConcentrations == {Zero, F(1, -3)}

MaterialData == {NoMaterialData, DefaultMaterialData}

\* the excess air ratios of a session whose combustion calculation succeeded
SessionExcessAir == {e \in ExcessAirRatios : FGe[e, F(1, 0)]}

\* no chamber design precedes the call
NoChamberResults == [ok |-> FALSE, error |-> "None"]

\* positive dimensions whose aspect ratios lie below, on, between and above
\* the two breakpoints 0.5 and 5
ViewDiameters == {F(5, -1), F(1, 0), F(2, 0)}

ViewLengths == {F(1, -1), F(4999, -4), F(5, -1), F(5001, -4), F(1, 0), F(2750, -3),
                F(4999, -3), F(5, 0), F(5001, -3), F(10, 0), F(20, 0)}

\* _colebrook_white is called for turbulent flow only
TurbulentReynolds == {re \in Reynolds : FGe[re, F(4000, 0)]}

RelativeRoughnesses == {FDiv[roughness, diameter] : roughness \in Roughnesses, diameter \in PipeDiameters}

VARIABLES call

vars == <<call>>

Init == call = [op |-> "idle"]

CombustionCall ==
    /\ call.op = "idle"
    /\ \E fuel_type \in FuelIds, fuel_flow_rate \in FlowRates,
          excess_air_ratio \in ExcessAirRatios :
         call' = [op |-> "calculate_combustion_products",
                  fuel_type |-> fuel_type,
                  fuel_flow_rate |-> fuel_flow_rate,
                  excess_air_ratio |-> excess_air_ratio,
                  res |-> calculate_combustion_products(fuel_type, fuel_flow_rate,
                                                        excess_air_ratio)]

BurnerCall ==
    /\ call.op = "idle"
    /\ \E safety_factor \in BurnerSafetyFactors, fuel_type \in FuelIds,
          required_power \in Powers, supply_pressure \in SupplyPressures,
          target_velocity \in TargetVelocities, excess_air_ratio \in BurnerExcessAir :
         call' = [op |-> "design_burner",
                  safety_factor |-> safety_factor,
                  fuel_type |-> fuel_type,
                  required_power |-> required_power,
                  supply_pressure |-> supply_pressure,
                  target_velocity |-> target_velocity,
                  excess_air_ratio |-> excess_air_ratio,
                  res |-> design_burner(safety_factor, fuel_type, required_power,
                                        supply_pressure, target_velocity,
                                        excess_air_ratio)]

ChamberCall ==
    /\ call.op = "idle"
    /\ \E safety_factor \in ChamberSafetyFactors, fuel_type \in FuelIds,
          required_power \in ChamberPowers, target_residence_time \in ResidenceTimes,
          wall_insulation_thickness \in InsulationThicknesses,
          ambient_temperature \in AmbientTemperatures :
         call' = [op |-> "design_chamber",
                  safety_factor |-> safety_factor,
                  fuel_type |-> fuel_type,
                  required_power |-> required_power,
                  target_residence_time |-> target_residence_time,
                  res |-> design_chamber(safety_factor, fuel_type, required_power,
                                         target_residence_time,
                                         wall_insulation_thickness,
                                         ambient_temperature)]

FrictionCall ==
    /\ call.op = "idle"
    /\ \E reynolds \in Reynolds, roughness \in Roughnesses, diameter \in PipeDiameters :
         call' = [op |-> "_calculate_friction_factor",
                  reynolds |-> reynolds,
                  roughness |-> roughness,
                  diameter |-> diameter,
                  res |-> _calculate_friction_factor(reynolds, roughness, diameter)]

SystemLossesCall ==
    /\ call.op = "idle"
    /\ \E safety_factor \in SystemSafetyFactors, pipe_segments \in SegmentLists,
          fittings \in FittingLists, mass_flow_rate \in SystemMassFlowRates,
          gas_density \in SystemGasDensities, burner_results \in BurnerResultsGiven :
         call' = [op |-> "calculate_system_pressure_losses",
                  safety_factor |-> safety_factor,
                  pipe_segments |-> pipe_segments,
                  fittings |-> fittings,
                  mass_flow_rate |-> mass_flow_rate,
                  gas_density |-> gas_density,
                  burner_results |-> burner_results,
                  res |-> calculate_system_pressure_losses(
                              safety_factor, pipe_segments, fittings, mass_flow_rate,
                              gas_density, F(15, -6), burner_results)]

RadiationCall ==
    /\ call.op = "idle"
    /\ \E material_data \in MaterialData, flame_temperature \in FlameTemperatures,
          chamber_wall_temperature \in WallTemperatures,
          chamber_diameter \in ChamberDiameters, chamber_length \in ChamberLengths,
          fuel_type \in RadiationFuels, excess_air_ratio \in RadiationExcessAir,
          soot_concentration \in SootConcentrations :
         call' = [op |-> "calculate_flame_radiation",
                  chamber_results |-> NoChamberResults,
                  flame_temperature |-> flame_temperature,
                  chamber_wall_temperature |-> chamber_wall_temperature,
                  chamber_diameter |-> chamber_diameter,
                  chamber_length |-> chamber_length,
                  fuel_type |-> fuel_type,
                  excess_air_ratio |-> excess_air_ratio,
                  soot_concentration |-> soot_concentration,
                  res |-> calculate_flame_radiation(
                              material_data, flame_temperature,
                              chamber_wall_temperature, chamber_diameter,
                              chamber_length, fuel_type, excess_air_ratio,
                              soot_concentration)]

\* the arguments of lines 121-129, from the combustion results and a chamber design
RadiationOfChamber(material_data, flame_temperature, chamber_results, fuel_type, excess_air_ratio, soot_concentration) ==
    [op |-> "calculate_flame_radiation",
     chamber_results |-> chamber_results,
     flame_temperature |-> flame_temperature,
     chamber_wall_temperature |-> chamber_results.wall_temperature,
     chamber_diameter |-> chamber_results.chamber_diameter,
     chamber_length |-> chamber_results.chamber_length,
     fuel_type |-> fuel_type,
     excess_air_ratio |-> excess_air_ratio,
     soot_concentration |-> soot_concentration,
     res |-> calculate_flame_radiation(
                 material_data, flame_temperature, chamber_results.wall_temperature,
                 chamber_results.chamber_diameter, chamber_results.chamber_length,
                 fuel_type, excess_air_ratio, soot_concentration)]

\* the session of integration_test.py: the radiation of a designed chamber at the
\* flame temperature of the session's combustion calculation
ChamberRadiationCall ==
    /\ call.op = "design_chamber"
    /\ call.res.ok
    /\ \E material_data \in MaterialData, excess_air_ratio \in SessionExcessAir,
          soot_concentration \in SootConcentrations :
         call' = RadiationOfChamber(
                     material_data,
                     calculate_combustion_products(
                         call.fuel_type,
                         FDiv[call.required_power,
                              FuelProperties(call.fuel_type).lower_heating_value_mass],
                         excess_air_ratio).adiabatic_flame_temperature,
                     call.res, call.fuel_type, excess_air_ratio, soot_concentration)

\* BurnerDesigner.get_design_recommendations on the design just returned
BurnerRecommendationsCall ==
    /\ call.op = "design_burner"
    /\ call.res.ok
    /\ call' = [op |-> "get_design_recommendations",
                designer |-> "BurnerDesigner",
                safety_factor |-> call.safety_factor,
                design_results |-> call.res,
                validation |-> burner_validate_design(call.res),
                res |-> burner_get_design_recommendations(call.res)]

\* ChamberDesigner.get_design_recommendations on the design just returned
ChamberRecommendationsCall ==
    /\ call.op = "design_chamber"
    /\ call.res.ok
    /\ call' = [op |-> "get_design_recommendations",
                designer |-> "ChamberDesigner",
                design_results |-> call.res,
                validation |-> chamber_validate_design(call.res),
                res |-> chamber_get_design_recommendations(call.res)]

\* _colebrook_white runs its for loop one iteration per step; f is the
\* current iterate and evaluations counts the passes through the loop body
ViewFactorCall ==
    /\ call.op = "idle"
    /\ \E diameter \in ViewDiameters, length \in ViewLengths :
         call' = [op |-> "_calculate_view_factor_cylinder",
                  diameter |-> diameter,
                  length |-> length,
                  res |-> _calculate_view_factor_cylinder(diameter, length)]

ColebrookCall ==
    /\ call.op = "idle"
    /\ \E reynolds \in TurbulentReynolds, relative_roughness \in RelativeRoughnesses :
         call' = [op |-> "_colebrook_white",
                  pc |-> "loop",
                  reynolds |-> reynolds,
                  relative_roughness |-> relative_roughness,
                  f |-> FMul[F(316, -3), FPow[reynolds, 0 - 1, 4]],
                  evaluations |-> 0,
                  broke |-> FALSE]

\* mutant: the tolerance test is left out, the loop always runs to the cap
ColebrookAfter_NoBreak(c, f_new) ==
    [c EXCEPT !.evaluations = @ + 1, !.f = f_new,
              !.pc = IF c.evaluations + 1 = ColebrookIterations THEN "done" ELSE "loop"]
ColebrookAfter(c, f_new) ==
    IF FLt[FAbs[FSub[f_new, c.f]], ColebrookTolerance]
    THEN [c EXCEPT !.evaluations = @ + 1, !.pc = "done", !.broke = TRUE]
    ELSE [c EXCEPT !.evaluations = @ + 1, !.f = f_new,
                   !.pc = IF c.evaluations + 1 = ColebrookIterations
                          THEN "done" ELSE "loop"]

ColebrookIterate ==
    /\ call.op = "_colebrook_white"
    /\ call.pc = "loop"
    /\ call' = ColebrookAfter(call, ColebrookStep(call.f, call.reynolds,
                                                  call.relative_roughness))

\* optimize_pipe_diameter runs its for loop one diameter per step
OptimizeCall ==
    /\ call.op = "idle"
    /\ \E length \in PipeLengths, mass_flow_rate \in MassFlowRates,
          gas_density \in GasDensities, max_pressure_loss \in MaxPressureLosses,
          material \in OptMaterials, max_velocity \in MaxVelocities :
         call' = [op |-> "optimize_pipe_diameter",
                  pc |-> "scan",
                  length |-> length,
                  mass_flow_rate |-> mass_flow_rate,
                  gas_density |-> gas_density,
                  max_pressure_loss |-> max_pressure_loss,
                  material |-> material,
                  roughness |-> get_pipe_roughness(material),
                  max_velocity |-> max_velocity,
                  d |-> GridStart,
                  best |-> NoResults]

OptimizeScan ==
    /\ call.op = "optimize_pipe_diameter"
    /\ call.pc = "scan"
    /\ call.d < GridStop
    /\ call' = [call EXCEPT
                  !.best = ScanStep(call.best, call.d, call.length,
                                    call.mass_flow_rate, call.gas_density,
                                    call.max_pressure_loss, call.roughness,
                                    call.max_velocity),
                  !.d = call.d + GridStep]

OptimizeFinish ==
    /\ call.op = "optimize_pipe_diameter"
    /\ call.pc = "scan"
    /\ call.d >= GridStop
    /\ call' = [op |-> "optimize_pipe_diameter",
                pc |-> "done",
                length |-> call.length,
                mass_flow_rate |-> call.mass_flow_rate,
                gas_density |-> call.gas_density,
                max_pressure_loss |-> call.max_pressure_loss,
                material |-> call.material,
                roughness |-> call.roughness,
                max_velocity |-> call.max_velocity,
                res |-> OptimizeResult(call.best, call.mass_flow_rate,
                                       call.gas_density)]

Returned ==
    /\ call.op # "idle"
    /\ call.op \in {"optimize_pipe_diameter", "_colebrook_white"} => call.pc = "done"

\* the caller takes the result; the calculators keep no state between calls
Return == Returned /\ call' = [op |-> "idle"]

Next == CombustionCall \/ BurnerCall \/ ChamberCall \/ FrictionCall
          \/ SystemLossesCall \/ RadiationCall \/ ChamberRadiationCall
          \/ BurnerRecommendationsCall \/ ChamberRecommendationsCall
          \/ ColebrookCall \/ ColebrookIterate \/ ViewFactorCall
          \/ OptimizeCall \/ OptimizeScan \/ OptimizeFinish \/ Return

Spec == Init /\ [][Next]_vars

\* the solver on its own: a loop that has started runs on, the program is sequential
ColebrookNext == ColebrookCall \/ ColebrookIterate \/ Return
\* weak fairness of ColebrookIterate, with its enabling condition written out:
\* the step is enabled exactly while the loop runs and always changes the call
ColebrookRunning == call.op = "_colebrook_white" /\ call.pc = "loop"
ColebrookFairness == []<>(~ColebrookRunning) \/ []<><<ColebrookIterate>>_vars
ColebrookSpec == Init /\ [][ColebrookNext]_vars /\ ColebrookFairness

(***************************************************************************)
(* gui/gui.py: one session of the application.  The state of the session   *)
(* is the application object: the input fields, input_data, results, the   *)
(* handler the main thread is in and the worker threads started so far.    *)
(***************************************************************************)
GuiFields(fuel_flow_rate, max_gas_velocity, supply_pressure, heat_output) ==
    [fuel_type |-> "natural_gas", fuel_flow_rate |-> fuel_flow_rate,
     excess_air_ratio |-> F(12, -1), ambient_temperature |-> F(20, 0),
     max_gas_velocity |-> max_gas_velocity, supply_pressure |-> supply_pressure,
     heat_output |-> heat_output]

\* lines 392-402
GuiDefaults == GuiFields(F(2, -3), F(50, 0), F(3000, 0), F(100, 0))

\* the defaults, a feasible burner and a fuel flow that fails the validation
GuiInputs ==
    {GuiDefaults, GuiFields(F(2, -3), F(5, 0), F(1000, 0), F(200, 0)),
     GuiFields(Zero, F(5, 0), F(1000, 0), F(200, 0))}

\* the runs one session starts
MaxRuns == 2

\* the menu commands and button presses of one session
MaxUserActions == 4

\* lines 427-483, for the fields that differ between the inputs
GuiValid(input_data) ==
    /\ FGt[input_data.fuel_flow_rate, Zero]
    /\ FGe[input_data.excess_air_ratio, F(1, 0)]
    /\ FGe[input_data.supply_pressure, F(1000, 0)]
    /\ FGe[input_data.max_gas_velocity, F(1, 0)]
    /\ FLe[input_data.max_gas_velocity, F(200, 0)]
    /\ FGt[input_data.heat_output, Zero]

NoInputData == <<>>

NoResultSet == <<>>

Stages == <<"combustion", "burner", "chamber", "radiation", "pressure">>

NotComputed == [ok |-> FALSE, error |-> "NotComputed"]

\* lines 615-640: the sample piping and the gas density at 573 K
GuiPipeSegments(w) ==
    <<[length |-> FAdd[w.chamber.chamber_length, F(2, 0)],
       diameter |-> w.burner.burner_diameter, roughness |-> F(45, -6),
       material |-> "steel_new", elevation_change |-> F(5, -1)]>>

\* lines 553-559
create_standard_fittings_list(pipe_diameter) ==
    <<[type |-> "pipe_entrance_rounded", quantity |-> 1, loss_coefficient |-> F(5, -2),
       diameter |-> pipe_diameter],
      [type |-> "elbow_90_long", quantity |-> 2, loss_coefficient |-> F(6, -1),
       diameter |-> pipe_diameter],
      [type |-> "tee_through", quantity |-> 1, loss_coefficient |-> F(2, -1),
       diameter |-> pipe_diameter],
      [type |-> "gate_valve_open", quantity |-> 1, loss_coefficient |-> F(15, -2),
       diameter |-> pipe_diameter],
      [type |-> "pipe_exit", quantity |-> 1, loss_coefficient |-> F(1, 0),
       diameter |-> pipe_diameter]>>

GuiGasDensity(fuel_type) ==
    FDiv[FMul[F(101325, 0), FDiv[FuelProperties(fuel_type).molecular_weight, F(1000, 0)]],
         FMul[CatalogConstants.universal_gas_constant, F(573, 0)]]

\* lines 564-568, 574-580, 586-592, 598-605 and 642-648: the call of one stage
\* by the worker w with the input data d it reads at that moment
StageCall(stage, w, d) ==
    CASE stage = "combustion" ->
           calculate_combustion_products(d.fuel_type, d.fuel_flow_rate,
                                         d.excess_air_ratio)
      [] stage = "burner" ->
           design_burner(F(12, -1), d.fuel_type, w.combustion.heat_release_rate,
                         d.supply_pressure, d.max_gas_velocity, d.excess_air_ratio)
      [] stage = "chamber" ->
           design_chamber(F(15, -1), d.fuel_type, FMul[d.heat_output, F(1000, 0)],
                          F(8, -1), F(1, -1),
                          FAdd[d.ambient_temperature, F(27315, -2)])
      [] stage = "radiation" ->
           calculate_flame_radiation(
               DefaultMaterialData, w.combustion.adiabatic_flame_temperature,
               w.chamber.wall_temperature, w.chamber.chamber_diameter,
               w.chamber.chamber_length, d.fuel_type, w.combustion.excess_air_ratio,
               Zero)
      [] OTHER ->
           calculate_system_pressure_losses(
               F(13, -1), GuiPipeSegments(w),
               create_standard_fittings_list(w.burner.burner_diameter),
               w.combustion.flue_gas_flow_rate, GuiGasDensity(d.fuel_type), F(15, -6),
               w.burner)

\* line 551: the thread of run number run, started on the input data just validated
NewWorker(run, input_data) ==
    [run |-> run, pc |-> "clear", snapshot |-> input_data, stage |-> 1,
     combustion |-> NotComputed, burner |-> NotComputed, chamber |-> NotComputed,
     invoked |-> {}, raised |-> "none", error_shown |-> FALSE, displayed |-> FALSE,
     stored |-> NoResultSet]

\* the user edits the fields, loads a file or the default values
EditFields ==
    /\ call.main = "idle"
    /\ call.actions < MaxUserActions
    /\ \E fields \in GuiInputs \ {call.fields} :
         call' = [call EXCEPT !.fields = fields, !.actions = @ + 1]

\* line 503: validate_input, from the Tools menu or from run_calculations, rebinds
\* input_data to an empty dict
CollectBegin ==
    /\ call.main = "idle"
    /\ call.actions < MaxUserActions
    /\ \E handler \in {"validate_input", "run_calculations"} :
         /\ handler = "run_calculations" => Len(call.workers) < MaxRuns
         /\ call' = [call EXCEPT !.main = handler, !.input_data = NoInputData,
                                 !.actions = @ + 1]

\* lines 506-530, 427-499 and 535-553: the dict is filled from the fields and
\* validated; run_calculations starts a worker thread if it is valid
CollectFinish ==
    /\ call.main # "idle"
    /\ call' = [call EXCEPT
                  !.main = "idle",
                  !.input_data = call.fields,
                  !.workers =
                      IF call.main = "run_calculations" /\ GuiValid(call.fields)
                      THEN Append(@, NewWorker(Len(@) + 1, call.fields))
                      ELSE @]

\* lines 999-1001
NewProject ==
    /\ call.main = "idle"
    /\ call.actions < MaxUserActions
    /\ call' = [call EXCEPT !.fields = GuiDefaults, !.results = NoResultSet,
                            !.actions = @ + 1]

\* the threads started so far
Workers == {i \in 1 .. MaxRuns : i <= Len(call.workers)}

\* line 559
WorkerClear ==
    \E i \in Workers :
        /\ call.workers[i].pc = "clear"
        /\ call' = [call EXCEPT !.results = NoResultSet, !.workers[i].pc = "stage"]

\* lines 654-656: the exception leaves the try block and is reported
StageRaised(w, stage) ==
    [w EXCEPT !.raised = stage, !.error_shown = TRUE, !.pc = "finally"]

\* mutant: the worker goes on with the next stage after a failure
StageDone_IgnoresFailure(w, stage, res) ==
    [w EXCEPT !.invoked = @ \cup {stage},
              !.raised = IF res.ok THEN @ ELSE stage,
              !.combustion = IF stage = "combustion" THEN res ELSE @,
              !.burner = IF stage = "burner" THEN res ELSE @,
              !.chamber = IF stage = "chamber" THEN res ELSE @,
              !.stage = @ + 1,
              !.pc = IF w.stage = Len(Stages) THEN "display" ELSE "stage"]

\* the worker after the call of a stage returned res or raised
StageDone(w, stage, res) ==
    IF ~res.ok THEN StageRaised([w EXCEPT !.invoked = @ \cup {stage}], stage)
    ELSE [w EXCEPT !.invoked = @ \cup {stage},
                   !.combustion = IF stage = "combustion" THEN res ELSE @,
                   !.burner = IF stage = "burner" THEN res ELSE @,
                   !.chamber = IF stage = "chamber" THEN res ELSE @,
                   !.stage = @ + 1,
                   !.pc = IF w.stage = Len(Stages) THEN "display" ELSE "stage"]

\* lines 561-649: one stage; reading a key of an empty input_data raises KeyError
WorkerStage ==
    \E i \in Workers :
        /\ call.workers[i].pc = "stage"
        /\ LET w == call.workers[i]
               stage == Stages[w.stage]
               res == StageCall(stage, w, call.input_data)
           IN  IF call.input_data = NoInputData
               THEN call' = [call EXCEPT !.workers[i] = StageRaised(w, stage)]
               ELSE call' = [call EXCEPT
                               !.workers[i] = StageDone(w, stage, res),
                               !.results =
                                   IF res.ok
                                   THEN (stage :> [run |-> w.run,
                                                   input_data |-> call.input_data,
                                                   value |-> res]) @@ @
                                   ELSE @]

\* line 652
WorkerDisplay ==
    \E i \in Workers :
        /\ call.workers[i].pc = "display"
        /\ call' = [call EXCEPT !.workers[i].displayed = TRUE,
                                !.workers[i].pc = "finally"]

\* lines 658-660: the run ends; stored is the result set it leaves behind
WorkerFinish ==
    \E i \in Workers :
        /\ call.workers[i].pc = "finally"
        /\ call' = [call EXCEPT !.workers[i].pc = "done",
                                !.workers[i].stored = call.results]

\* lines 52-87
GuiInit ==
    call = [op |-> "gui", fields |-> GuiDefaults, input_data |-> NoInputData,
            results |-> NoResultSet, main |-> "idle", actions |-> 0,
            workers |-> <<>>]

GuiNext ==
    \/ EditFields \/ CollectBegin \/ CollectFinish \/ NewProject
    \/ WorkerClear \/ WorkerStage \/ WorkerDisplay \/ WorkerFinish

GuiSpec == GuiInit /\ [][GuiNext]_vars

(***************************************************************************)
(* Properties                                                              *)
(***************************************************************************)
IsCombustion == call.op = "calculate_combustion_products"

IsBurner == call.op = "design_burner"

IsChamber == call.op = "design_chamber"

IsFriction == call.op = "_calculate_friction_factor"

IsOptimizeDone == call.op = "optimize_pipe_diameter" /\ call.pc = "done"

\* C1: for every catalog fuel, fuel flow > 0 and excess air >= 1 the call
\* succeeds with airFlowRate = fuelFlowRate * airFuelRatio * excessAirRatio and
\* flueGasFlowRate = fuelFlowRate + airFlowRate, exactly.
C1_FlueGasIsFuelPlusAir ==
    (/\ IsCombustion
     /\ call.fuel_type \in CatalogFuels
     /\ FGt[call.fuel_flow_rate, Zero]
     /\ FGe[call.excess_air_ratio, F(1, 0)])
    => /\ call.res.ok
       /\ call.res.fuel_flow_rate = call.fuel_flow_rate
       /\ call.res.air_flow_rate =
            FMul[FMul[call.fuel_flow_rate,
                      FuelProperties(call.fuel_type).air_fuel_ratio_mass],
                 call.excess_air_ratio]
       /\ call.res.flue_gas_flow_rate =
            FAdd[call.res.fuel_flow_rate, call.res.air_flow_rate]

C1_Witness ==
    /\ IsCombustion
    /\ call.res.ok
    /\ call.fuel_type = "propane"
    /\ call.excess_air_ratio = F(15, -1)
    /\ FGt[call.res.flue_gas_flow_rate, call.res.air_flow_rate]

BurnerInputsValid ==
    /\ FGt[call.required_power, Zero]
    /\ FGt[call.supply_pressure, Zero]
    /\ call.fuel_type \in CatalogFuels
    /\ FGe[call.excess_air_ratio, F(1, 0)]

\* the velocity the caller asked for, or the one derived from the power
RequestedVelocity ==
    IF call.target_velocity = NoVelocity
    THEN _calculate_optimal_velocity(call.fuel_type, call.required_power)
    ELSE call.target_velocity

\* the requested velocity clamped to [MIN_GAS_VELOCITY, MAX_GAS_VELOCITY]
ClampedRequest == FMax[MIN_GAS_VELOCITY, FMin[MAX_GAS_VELOCITY, RequestedVelocity]]

\* C2: a returned design carries the requested (or derived) velocity clamped to
\* [5, 100] m/s; 120 m/s gives exactly 100, 2 m/s exactly 5; and a call with an
\* out-of-range target ends exactly as the call with the clamped target does.
C2_VelocityClamped ==
    IsBurner =>
      /\ call.res.ok =>
           /\ call.res.gas_velocity = ClampedRequest
           /\ call.target_velocity = F(120, 0) => call.res.gas_velocity = F(100, 0)
           /\ call.target_velocity = F(2, 0) => call.res.gas_velocity = F(5, 0)
      /\ call.target_velocity # NoVelocity =>
           call.res = design_burner(call.safety_factor, call.fuel_type,
                                    call.required_power, call.supply_pressure,
                                    ClampedRequest, call.excess_air_ratio)

C2_Witness ==
    /\ IsBurner
    /\ call.res.ok
    /\ call.target_velocity = F(120, 0)
    /\ call.res.gas_velocity = F(100, 0)

\* pressure drop and burner area as the sizing arithmetic gives them
BurnerDensity == _calculate_gas_density(call.fuel_type, call.supply_pressure, F(29315, -2))

BurnerDrop ==
    FDiv[FMul[FMul[BURNER_PRESSURE_DROP_COEFF, BurnerDensity],
              FMul[ClampedRequest, ClampedRequest]], F(2, 0)]

BurnerArea ==
    FDiv[FDiv[FDiv[call.required_power,
                   FuelProperties(call.fuel_type).lower_heating_value_mass],
              BurnerDensity],
         ClampedRequest]

\* C3: a returned design has requiredSupplyPressure = pressureDrop * safetyFactor
\* and requiredSupplyPressure <= supply pressure; whenever pressureDrop *
\* safetyFactor exceeds the supply pressure the call raises the
\* insufficient-supply-pressure error.
C3_SupplyPressure ==
    IsBurner =>
      /\ call.res.ok =>
           /\ call.res.burner_pressure_drop = BurnerDrop
           /\ call.res.required_supply_pressure =
                FMul[call.res.burner_pressure_drop, call.safety_factor]
           /\ FLe[call.res.required_supply_pressure, call.supply_pressure]
      /\ (BurnerInputsValid
          /\ FGt[FMul[BurnerDrop, call.safety_factor], call.supply_pressure])
         => (~call.res.ok /\ call.res.error = "InsufficientSupplyPressure")

C3_Witness ==
    /\ IsBurner
    /\ ~call.res.ok
    /\ call.res.error = "InsufficientSupplyPressure"
    /\ FGt[FMul[BurnerDrop, call.safety_factor], call.supply_pressure]

\* C4 as stated: a returned design has heatReleaseDensity = requiredPower / area
\* <= MAX_HEAT_DENSITY, and whenever requiredPower / area exceeds the cap the
\* call raises the excessive-heat-density error.
C4_Original ==
    IsBurner =>
      /\ call.res.ok =>
           /\ call.res.heat_release_density =
                FDiv[call.required_power, call.res.burner_area]
           /\ FLe[call.res.heat_release_density, MAX_HEAT_DENSITY]
      /\ (BurnerInputsValid
          /\ FGt[FDiv[call.required_power, BurnerArea], MAX_HEAT_DENSITY])
         => (~call.res.ok /\ call.res.error = "ExcessiveHeatDensity")

\* C4 (amended): a returned design has heatReleaseDensity = requiredPower / area
\* <= MAX_HEAT_DENSITY; whenever requiredPower / area exceeds the cap no design
\* is returned, and the error is the excessive-heat-density error unless
\* pressureDrop * safetyFactor exceeds the supply pressure, in which case the
\* insufficient-supply-pressure error, checked first, is raised instead.
C4_HeatDensity ==
    IsBurner =>
      /\ call.res.ok =>
           /\ call.res.burner_area = BurnerArea
           /\ call.res.heat_release_density =
                FDiv[call.required_power, call.res.burner_area]
           /\ FLe[call.res.heat_release_density, MAX_HEAT_DENSITY]
      /\ (BurnerInputsValid
          /\ FGt[FDiv[call.required_power, BurnerArea], MAX_HEAT_DENSITY])
         => /\ ~call.res.ok
            /\ call.res.error =
                 IF FGt[FMul[BurnerDrop, call.safety_factor], call.supply_pressure]
                 THEN "InsufficientSupplyPressure"
                 ELSE "ExcessiveHeatDensity"

C4_Witness ==
    /\ IsBurner
    /\ ~call.res.ok
    /\ call.res.error = "ExcessiveHeatDensity"
    /\ FGt[FDiv[call.required_power, BurnerArea], MAX_HEAT_DENSITY]

\* C5: every returned chamber design has volumeHeatReleaseRate <=
\* MAX_VOLUME_HEAT_RATE: a first-pass rate over the cap resets the volume once
\* to requiredPower / cap and the rate is re-derived from that volume.
C5_RateWithinCap ==
    (IsChamber /\ call.res.ok) =>
        FLe[call.res.volume_heat_release_rate, MAX_VOLUME_HEAT_RATE]

\* C6: every returned chamber design has a residence time within
\* [MIN_RESIDENCE_TIME, MAX_RESIDENCE_TIME], for every accepted target
\* residence time and every power > 0.
C6_ResidenceTimeBounded ==
    (IsChamber /\ call.res.ok) =>
        /\ FLe[MIN_RESIDENCE_TIME, call.res.residence_time]
        /\ FLe[call.res.residence_time, MAX_RESIDENCE_TIME]

\* friction loss of the call's pipe at a diameter of d millimetres
LossAt(d) ==
    _calculate_pipe_friction_loss(
        [length |-> call.length, diameter |-> FDiv[F(d, 0), F(1000, 0)],
         roughness |-> get_pipe_roughness(call.material)],
        call.mass_flow_rate, call.gas_density, F(15, -6)).friction_loss

\* the diameter of d millimetres meets both constraints of the call
Qualifies(d) ==
    /\ FLe[GridVelocity(d, call.mass_flow_rate, call.gas_density), call.max_velocity]
    /\ FLe[LossAt(d), call.max_pressure_loss]

\* the returned diameter in millimetres
ReturnedGridDiameter == CHOOSE d \in 1 .. GridStop : F(d, -3) = call.res.diameter

\* C7: a record returned without the warning carries a diameter whose friction
\* pressure loss is <= maxPressureLoss and whose velocity
\* massFlow / (density * pi d^2 / 4) is <= maxVelocity.
C7_ResultMeetsConstraints ==
    (IsOptimizeDone /\ ~call.res.warning) =>
        /\ \E d \in Diameters : F(d, -3) = call.res.diameter
        /\ call.res.velocity =
             GridVelocity(ReturnedGridDiameter, call.mass_flow_rate, call.gas_density)
        /\ call.res.pressure_loss = LossAt(ReturnedGridDiameter)
        /\ FLe[call.res.velocity, call.max_velocity]
        /\ FLe[call.res.pressure_loss, call.max_pressure_loss]

C7_Witness ==
    /\ IsOptimizeDone
    /\ ~call.res.warning
    /\ FGt[call.res.diameter, F(GridStart, -3)]
    /\ ~Qualifies(GridStart)

\* C8 as stated: if no grid diameter satisfies both constraints the record is
\* marked as a failure, and it carries no diameter/velocity pair that breaks
\* maxVelocity or maxPressureLoss.
C8_Original ==
    (IsOptimizeDone /\ \A d \in Diameters : ~Qualifies(d)) =>
        /\ call.res.warning
        /\ \A d \in Diameters :
             (F(d, -3) = call.res.diameter
                /\ GridVelocity(d, call.mass_flow_rate, call.gas_density)
                     = call.res.velocity)
             => Qualifies(d)

\* C8 (amended): the record is marked with the warning exactly when no scanned
\* diameter satisfies both constraints; the marked record has pressure_loss =
\* inf and zero Reynolds number and friction factor, and still carries the
\* largest scanned diameter (0.495 m) with the velocity at that diameter, which
\* may exceed maxVelocity.
C8_FailureRecord ==
    IsOptimizeDone =>
        /\ call.res.warning <=> (\A d \in Diameters : ~Qualifies(d))
        /\ call.res.warning =>
             /\ call.res.pressure_loss = Inf
             /\ call.res.reynolds_number = Zero
             /\ call.res.friction_factor = Zero
             /\ call.res.diameter = F(495, -3)
             /\ call.res.velocity =
                  GridVelocity(495, call.mass_flow_rate, call.gas_density)

C8_Witness ==
    /\ IsOptimizeDone
    /\ call.res.warning
    /\ FGt[call.res.velocity, call.max_velocity]

\* 25 mm to 500 mm in 5 mm steps
DocumentedGrid == {d \in GridStart .. GridStop : (d - GridStart) % GridStep = 0}

\* C9: the result is the smallest diameter of the grid 25..500 mm (5 mm steps)
\* that satisfies both constraints, and the call fails only if no diameter of
\* that grid qualifies.
C9_SmallestOfGrid ==
    IsOptimizeDone =>
        IF \E d \in DocumentedGrid : Qualifies(d)
        THEN /\ ~call.res.warning
             /\ \E d \in DocumentedGrid :
                  /\ F(d, -3) = call.res.diameter
                  /\ Qualifies(d)
                  /\ \A o \in DocumentedGrid : o < d => ~Qualifies(o)
        ELSE call.res.warning

\* C10: for Reynolds numbers in [2300, 4000] the friction factor lies between
\* the laminar value 64/2300 and the Colebrook-White value at Re = 4000, and
\* equals them at the two ends.
C10_TransitionBetweenEnds ==
    (IsFriction /\ FGe[call.reynolds, F(2300, 0)] /\ FLe[call.reynolds, F(4000, 0)]) =>
        LET f_lam == FDiv[F(64, 0), F(2300, 0)]
            f_turb == _colebrook_white(F(4000, 0), FDiv[call.roughness, call.diameter])
        IN  /\ FLe[FMin[f_lam, f_turb], call.res]
            /\ FLe[call.res, FMax[f_lam, f_turb]]
            /\ call.reynolds = F(2300, 0) => call.res = f_lam
            /\ call.reynolds = F(4000, 0) => call.res = f_turb

C10_Witness ==
    /\ IsFriction
    /\ call.reynolds = F(3500, 0)
    /\ FGt[call.res, FDiv[F(64, 0), F(2300, 0)]]
    /\ FLt[call.res, _colebrook_white(F(4000, 0), FDiv[call.roughness, call.diameter])]
\* C11: for a fixed relative roughness the friction factor of turbulent flow
\* strictly decreases as the Reynolds number increases: Re1 > Re2 >= 4000
\* implies f(Re1) < f(Re2).
C11_TurbulentStrictlyDecreasing ==
    (IsFriction /\ FGe[call.reynolds, F(4000, 0)]) =>
        \A re2 \in Reynolds :
            (FGe[re2, F(4000, 0)] /\ FLt[re2, call.reynolds]) =>
                FLt[call.res,
                    _calculate_friction_factor(re2, call.roughness, call.diameter)]

IsSystemLosses == call.op = "calculate_system_pressure_losses"

SystemInputsValid ==
    /\ FGt[call.mass_flow_rate, Zero]
    /\ FGt[call.gas_density, Zero]
    /\ call.pipe_segments # <<>>

SuppliedBurnerLoss ==
    IF call.burner_results = NoBurnerResults THEN Zero
    ELSE call.burner_results.burner_pressure_drop

\* C12: for every valid call, totalLoss = frictionLosses + minorLosses +
\* elevationLosses + burnerLoss, burnerLoss being the supplied burner design's
\* pressure drop or 0 without one, and requiredSupplyPressure = totalLoss *
\* safetyFactor; another safety factor leaves totalLoss unchanged.
C12_TotalIsSumOfLosses ==
    (IsSystemLosses /\ SystemInputsValid) =>
        /\ call.res.ok
        /\ call.res.burner_pressure_loss = SuppliedBurnerLoss
        /\ call.res.total_pressure_loss =
               FAdd[FAdd[FAdd[call.res.friction_losses, call.res.minor_losses],
                         call.res.elevation_losses],
                    call.res.burner_pressure_loss]
        /\ call.res.required_supply_pressure =
               FMul[call.res.total_pressure_loss, call.safety_factor]
        /\ \A safety_factor \in SystemSafetyFactors :
               calculate_system_pressure_losses(
                   safety_factor, call.pipe_segments, call.fittings,
                   call.mass_flow_rate, call.gas_density, F(15, -6),
                   call.burner_results).total_pressure_loss
                 = call.res.total_pressure_loss

C12_Witness ==
    /\ IsSystemLosses
    /\ call.res.ok
    /\ call.safety_factor = F(2, 0)
    /\ call.burner_results # NoBurnerResults
    /\ FGt[call.res.friction_losses, Zero]
    /\ FGt[call.res.minor_losses, Zero]
    /\ FGt[call.res.elevation_losses, Zero]
    /\ call.res.burner_pressure_loss = F(500, 0)
    /\ FGt[call.res.required_supply_pressure, call.res.total_pressure_loss]

\* a single segment rising 3 m, gas density 0.8, no fittings, no burner result
ElevationOnlySystem ==
    /\ IsSystemLosses
    /\ FGt[call.mass_flow_rate, Zero]
    /\ Len(call.pipe_segments) = 1
    /\ call.pipe_segments[1].elevation_change = F(3, 0)
    /\ call.gas_density = F(8, -1)
    /\ call.fittings = <<>>
    /\ call.burner_results = NoBurnerResults

ElevationLossIsExpected ==
    FLe[FAbs[FSub[call.res.elevation_losses, F(2354, -2)]], F(1, -2)]

\* C13 as stated: such a system reports elevationLosses = 23.54 Pa within
\* 0.01 Pa and both frictionLosses and minorLosses as 0.
C13_Original ==
    ElevationOnlySystem =>
        /\ call.res.ok
        /\ ElevationLossIsExpected
        /\ call.res.friction_losses = Zero
        /\ call.res.minor_losses = Zero

\* C13: such a system reports elevationLosses = 23.54 Pa within 0.01 Pa and
\* minorLosses as 0; frictionLosses is 0 when the segment has length 0.
C13_ElevationLoss ==
    ElevationOnlySystem =>
        /\ call.res.ok
        /\ ElevationLossIsExpected
        /\ call.res.minor_losses = Zero
        /\ (call.pipe_segments[1].length = Zero => call.res.friction_losses = Zero)

C13_Witness ==
    /\ ElevationOnlySystem
    /\ call.pipe_segments[1].length = Zero
    /\ call.res.ok
    /\ call.res.elevation_losses = F(2354, -2)
    /\ call.res.friction_losses = Zero

\* C19: the call raises when massFlowRate <= 0, when gasDensity <= 0 or when
\* the segment list is empty, the first violated check in that order naming
\* the error; an empty fittings list is allowed.
C19_SystemInputChecks ==
    IsSystemLosses =>
        /\ FLe[call.mass_flow_rate, Zero] => call.res = Raise("InvalidFlowRate")
        /\ (FGt[call.mass_flow_rate, Zero] /\ FLe[call.gas_density, Zero]) =>
               call.res = Raise("InvalidDensity")
        /\ (FGt[call.mass_flow_rate, Zero] /\ FGt[call.gas_density, Zero]
              /\ call.pipe_segments = <<>>) =>
               call.res = Raise("EmptySegmentList")
        /\ (SystemInputsValid /\ call.fittings = <<>>) => call.res.ok

C19_Witness ==
    /\ IsSystemLosses
    /\ FLe[call.mass_flow_rate, Zero]
    /\ FLe[call.gas_density, Zero]
    /\ call.pipe_segments = <<>>
    /\ call.res = Raise("InvalidFlowRate")

IsRadiation == call.op = "calculate_flame_radiation"

TemperaturesOrdered == FGt[call.flame_temperature, call.chamber_wall_temperature]

DimensionsPositive == FGt[call.chamber_diameter, Zero] /\ FGt[call.chamber_length, Zero]

\* C14: calculate_flame_radiation raises an error when the flame temperature is
\* not above the wall temperature (equality included) or a chamber dimension is
\* not positive, the temperature error taking precedence, and returns a result
\* for every other input.
C14_ErrorsExactlyOnInvalidInput ==
    IsRadiation =>
        /\ ~TemperaturesOrdered =>
               call.res = Raise("TemperatureOrderingViolation")
        /\ (TemperaturesOrdered /\ ~DimensionsPositive) =>
               call.res = Raise("InvalidGeometry")
        /\ (TemperaturesOrdered /\ DimensionsPositive) => call.res.ok

IsChamberRadiation == IsRadiation /\ call.chamber_results.ok

RadiationPositive ==
    /\ call.res.ok
    /\ FGt[call.res.flame_to_wall_heat_transfer, Zero]
    /\ FGt[call.res.radiation_efficiency, Zero]
    /\ FLe[call.res.radiation_efficiency, F(100, 0)]

\* C15 as stated: the radiation of every designed chamber at the flame
\* temperature of the session's combustion calculation has flameToWall > 0 and
\* an efficiency in (0, 100] percent.
C15_Original == IsChamberRadiation => RadiationPositive

\* C15: the radiation of a designed chamber whose wall temperature is below the
\* flame temperature of the session's combustion calculation has
\* flameToWall > 0 and an efficiency in (0, 100] percent.
C15_ChamberRadiationPositive ==
    (IsChamberRadiation /\ TemperaturesOrdered) => RadiationPositive

C15_Witness ==
    /\ IsChamberRadiation
    /\ TemperaturesOrdered
    /\ call.fuel_type = "natural_gas"
    /\ call.excess_air_ratio = F(12, -1)
    /\ call.soot_concentration = F(1, -3)
    /\ call.chamber_length = FMul[TYPICAL_LD_RATIO, call.chamber_diameter]
    /\ RadiationPositive

CombustionInputsValid ==
    /\ call.fuel_type \in CatalogFuels
    /\ FGt[call.fuel_flow_rate, Zero]
    /\ FGe[call.excess_air_ratio, F(1, 0)]

\* C16: calculate_combustion_products raises an error exactly when the fuel is
\* not in the catalog, the fuel flow rate is <= 0 or the excess air ratio is
\* < 1; every other call returns a result that carries its inputs, the excess
\* air ratio 1.0 included.
C16_ErrorExactlyOnInvalidInput ==
    IsCombustion =>
        /\ call.res.ok <=> CombustionInputsValid
        /\ call.res.ok =>
               /\ call.res.fuel_flow_rate = call.fuel_flow_rate
               /\ call.res.excess_air_ratio = call.excess_air_ratio
        /\ ~call.res.ok =>
               call.res.error \in {"UnknownFuel", "InvalidFlowRate", "InvalidExcessAir"}

C16_Witness ==
    /\ IsCombustion
    /\ call.fuel_type = "propane"
    /\ call.fuel_flow_rate = F(1, -3)
    /\ call.excess_air_ratio = F(1, 0)
    /\ call.res.ok
    /\ call.res.o2_volume_percent = Zero

C18_PowerAndResidenceChecks ==
    IsChamber =>
        /\ FLe[call.required_power, Zero] => call.res = Raise("InvalidPower")
        /\ (FGt[call.required_power, Zero]
              /\ FLt[call.target_residence_time, MIN_RESIDENCE_TIME]) =>
               call.res = Raise("ResidenceTimeTooShort")
        /\ (FGt[call.required_power, Zero]
              /\ FGt[call.target_residence_time, MAX_RESIDENCE_TIME]) =>
               call.res = Raise("ResidenceTimeTooLong")
        /\ (FGt[call.required_power, Zero] /\ call.fuel_type \in CatalogFuels
              /\ call.target_residence_time \in {MIN_RESIDENCE_TIME, MAX_RESIDENCE_TIME}) =>
               call.res.ok

C18_Witness ==
    /\ IsChamber
    /\ FGt[call.required_power, Zero]
    /\ call.target_residence_time = MAX_RESIDENCE_TIME
    /\ call.res.ok
    /\ design_chamber(call.safety_factor, call.fuel_type, Zero, F(11, 0),
                      F(1, -1), F(29315, -2)) = Raise("InvalidPower")

IsRecommendations == call.op = "get_design_recommendations"

FailingPredicates == {k \in DOMAIN call.validation : ~call.validation[k]}

\* C20: for burner and chamber designs alike, a design for which
\* validate_design reports a failing predicate never receives an empty list
\* from get_design_recommendations.
C20_FailingPredicateHasGuidance ==
    (IsRecommendations /\ FailingPredicates # {}) => call.res # <<>>

IsColebrook == call.op = "_colebrook_white"

ColebrookDone == IsColebrook /\ call.pc = "done"

\* the loop evaluates the map at most 10 times, ends at the first change below
\* the tolerance or with the tenth evaluation, and returns the value the
\* solver of the friction factor returns: a plain number either way
ColebrookBounded ==
    IsColebrook =>
        /\ call.evaluations <= 10
        /\ call.pc = "done" <=> (call.broke \/ call.evaluations = 10)
        /\ call.pc = "done" =>
               /\ call.f = _colebrook_white(call.reynolds, call.relative_roughness)
               /\ call.f \in Floats

\* a pass whose successive change is below the tolerance is the last one
ColebrookStopsEarly ==
    (ColebrookRunning /\ call'.op = "_colebrook_white") =>
        /\ call'.evaluations = call.evaluations + 1
        /\ call'.broke <=>
               FLt[FAbs[FSub[ColebrookStep(call.f, call.reynolds, call.relative_roughness),
                             call.f]], ColebrookTolerance]
        /\ call'.broke => call'.pc = "done" /\ call'.f = call.f

ChamberReturned == IsChamber /\ call.res.ok

\* the cylinder of the returned diameter and length holds the stored volume,
\* to within one percent
CylinderHoldsVolume(r) ==
    FLe[FAbs[FSub[FMul[r.chamber_area, r.chamber_length], r.chamber_volume]],
        FMul[r.chamber_volume, F(1, -2)]]

\* the diameter lies strictly inside the practical limits
DiameterUnclamped(r) ==
    /\ FLt[MIN_CHAMBER_DIAMETER, r.chamber_diameter]
    /\ FLt[r.chamber_diameter, MAX_CHAMBER_DIAMETER]

\* C23: the dimensions of every returned chamber design are consistent with
\* its volume: area = pi x diameter^2 / 4, length = 3 x diameter, and
\* area x length is the stored volume.
C23_DimensionsConsistent ==
    ChamberReturned =>
        /\ call.res.chamber_area
               = FDiv[FMul[Pi, FMul[call.res.chamber_diameter, call.res.chamber_diameter]],
                      F(4, 0)]
        /\ call.res.chamber_length = FMul[TYPICAL_LD_RATIO, call.res.chamber_diameter]
        /\ CylinderHoldsVolume(call.res)

\* the relations hold wherever the diameter was not clamped
C23_ConsistentWhenUnclamped ==
    (ChamberReturned /\ DiameterUnclamped(call.res)) => CylinderHoldsVolume(call.res)

C23_UnclampedSeen == ChamberReturned /\ DiameterUnclamped(call.res)

IsViewFactor == call.op = "_calculate_view_factor_cylinder"

AspectRatio(diameter, length) == FDiv[length, diameter]

\* the three segments of lines 333-342
ViewFactorSegment(aspect_ratio, view_factor) ==
    /\ FLt[aspect_ratio, F(5, -1)] => view_factor = F(7, -1)
    /\ FGt[aspect_ratio, F(5, 0)] => view_factor = F(9, -1)
    /\ (FGe[aspect_ratio, F(5, -1)] /\ FLe[aspect_ratio, F(5, 0)]) =>
           view_factor
               = FAdd[F(7, -1),
                      FDiv[FMul[F(2, -1), FSub[aspect_ratio, F(5, -1)]], F(45, -1)]]

\* no longer cylinder of the inputs has a smaller view factor
ViewFactorMonotone(diameter, length, view_factor) ==
    \A diameter2 \in ViewDiameters, length2 \in ViewLengths :
        FLe[AspectRatio(diameter, length), AspectRatio(diameter2, length2)] =>
            FLe[view_factor, _calculate_view_factor_cylinder(diameter2, length2)]

BurnerReturned == IsBurner /\ call.res.ok

\* lines 289-301: C x Re^0.5 x D for the diameter and velocity of a design
FlameCorrelation(fuel_type, r) ==
    FMul[FMul[IF fuel_type \in {"natural_gas", "methane"} THEN F(2, -1) ELSE F(25, -2),
              FPow[FDiv[FMul[FMul[FuelProperties(fuel_type).density, r.gas_velocity],
                             r.burner_diameter],
                        F(15, -6)], 1, 2]],
         r.burner_diameter]

\* the value is kept inside [low, high] and replaced by the nearer end outside
ClampedTo(value, low, high, result) ==
    /\ FLe[low, result] /\ FLe[result, high]
    /\ (FLe[low, value] /\ FLe[value, high]) => result = value
    /\ FLt[value, low] => result = low
    /\ FGt[value, high] => result = high

\* C25: the flame length stored in every burner design lies within
\* [5 x D, 50 x D]: it is the correlation value C x Re^0.5 x D when that lies
\* inside the interval and the nearer bound otherwise.
C25_FlameLengthClamped ==
    BurnerReturned =>
        /\ FGt[call.res.burner_diameter, Zero]
        /\ ClampedTo(FlameCorrelation(call.fuel_type, call.res),
                     FMul[call.res.burner_diameter, F(5, 0)],
                     FMul[call.res.burner_diameter, F(50, 0)],
                     call.res.flame_length)

\* a design whose correlation value falls short of five diameters
C25_Witness ==
    /\ BurnerReturned
    /\ FLt[FlameCorrelation(call.fuel_type, call.res),
           FMul[call.res.burner_diameter, F(5, 0)]]
    /\ call.res.flame_length = FMul[call.res.burner_diameter, F(5, 0)]

C25_UpperSeen ==
    /\ BurnerReturned
    /\ FGt[FlameCorrelation(call.fuel_type, call.res),
           FMul[call.res.burner_diameter, F(50, 0)]]

C25_InsideSeen ==
    /\ BurnerReturned
    /\ FGt[call.res.flame_length, FMul[call.res.burner_diameter, F(5, 0)]]
    /\ FLt[call.res.flame_length, FMul[call.res.burner_diameter, F(50, 0)]]

InsufficientSupply(res) == res = Raise("InsufficientSupplyPressure")

\* the same call at every other positive supply pressure ends the supply
\* pressure check the same way
SupplyCheckIndependentOfPressure ==
    \A supply_pressure \in {p \in SupplyPressures : FGt[p, Zero]} :
        InsufficientSupply(design_burner(call.safety_factor, call.fuel_type,
                                         call.required_power, supply_pressure,
                                         call.target_velocity, call.excess_air_ratio))
            <=> InsufficientSupply(call.res)

\* C26: the outcome of the supply pressure check of design_burner does not
\* depend on the supply pressure, and with the default safety factor 1.2 the
\* insufficient-supply-pressure error is never raised for a catalog fuel and a
\* positive supply pressure.
C26_SupplyCheckIgnoresPressure ==
    (IsBurner /\ FGt[call.supply_pressure, Zero]) =>
        /\ SupplyCheckIndependentOfPressure
        /\ call.safety_factor = F(12, -1) => ~InsufficientSupply(call.res)

\* the default sizer at the largest velocity and the smallest supply pressure
C26_Witness ==
    /\ IsBurner
    /\ call.safety_factor = F(12, -1)
    /\ call.supply_pressure = F(100, 0)
    /\ call.res.ok
    /\ call.res.gas_velocity = MAX_GAS_VELOCITY

HeatRejected(res) == res = Raise("ExcessiveHeatDensity")

\* a call with an explicit target velocity that passes the input validation
ExplicitVelocityCall ==
    /\ IsBurner
    /\ FGt[call.required_power, Zero]
    /\ FGt[call.supply_pressure, Zero]
    /\ call.fuel_type \in CatalogFuels
    /\ call.target_velocity # NoVelocity

\* C27: for a fixed fuel, supply pressure and explicit target velocity, two
\* calls of design_burner that differ only in the positive required power are
\* both rejected for excessive heat density or both not rejected.
C27_HeatDensityIgnoresPower ==
    ExplicitVelocityCall =>
        \A required_power \in {p \in Powers : FGt[p, Zero]} :
            HeatRejected(design_burner(call.safety_factor, call.fuel_type, required_power,
                                       call.supply_pressure, call.target_velocity,
                                       call.excess_air_ratio))
                <=> HeatRejected(call.res)

IsBurnerValidation == IsRecommendations /\ call.designer = "BurnerDesigner"

ChamberLocals ==
    SizeChamber(DesignChamberFlow(DesignChamberCombustion(
        [safety_factor |-> call.safety_factor,
         fuel_type |-> call.fuel_type,
         required_power |-> call.required_power,
         target_residence_time |-> call.target_residence_time])))

\* line 160: the volume sized first
FirstPassVolume ==
    FMul[FMul[ChamberLocals.flue_gas_volume_flow, call.target_residence_time],
         call.safety_factor]

DesignResidenceTime == FMul[call.target_residence_time, call.safety_factor]

\* a and b differ by no more than the rounding of two operations
WithinRounding(a, b) == FLe[FAbs[FSub[a, b]], FMul[b, F(3, -3)]]

\* C29 as stated: residence_time >= target x safety_factor, with equality
\* exactly when no corrective resize occurred, and never below the target.
C29_Original ==
    ChamberReturned =>
        /\ FGe[call.res.residence_time, DesignResidenceTime]
        /\ call.res.residence_time = DesignResidenceTime <=> ~ChamberLocals.resized
        /\ FGe[call.res.chamber_volume, FirstPassVolume]
        /\ FGe[call.res.residence_time, call.target_residence_time]

\* C29: the residence time of every returned chamber design is target x
\* safety_factor up to rounding when no corrective resize occurred and not
\* smaller than that, up to rounding, when one occurred; the resize never
\* shrinks the volume sized first.
C29_ResidenceTimeReached ==
    ChamberReturned =>
        /\ call.res.residence_time = ChamberLocals.residence_time
        /\ ~ChamberLocals.resized =>
               /\ WithinRounding(call.res.residence_time, DesignResidenceTime)
               /\ call.res.chamber_volume = FirstPassVolume
        /\ ChamberLocals.resized =>
               /\ FGe[call.res.residence_time, FMul[DesignResidenceTime, F(997, -3)]]
               /\ FGe[call.res.chamber_volume, FirstPassVolume]
        /\ FGe[call.res.residence_time, FMul[call.target_residence_time, F(997, -3)]]

\* a corrective resize that lengthened the residence time
C29_Witness ==
    /\ ChamberReturned
    /\ ChamberLocals.resized
    /\ FGt[call.res.chamber_volume, FirstPassVolume]
    /\ FGt[call.res.residence_time, FMul[DesignResidenceTime, F(11, -1)]]

C29_UnresizedSeen ==
    /\ ChamberReturned
    /\ ~ChamberLocals.resized
    /\ FLt[call.res.residence_time, DesignResidenceTime]

\* The stage results a stage is called with (gui.py lines 574-580, 598-605, 642-648).
StageInputs(stage) ==
    CASE stage = "burner" -> {"combustion"}
      [] stage = "radiation" -> {"combustion", "chamber"}
      [] stage = "pressure" -> {"combustion", "burner", "chamber"}
      [] OTHER -> {}

StageLocal(w, stage) ==
    CASE stage = "combustion" -> w.combustion
      [] stage = "burner" -> w.burner
      [] OTHER -> w.chamber

StageIndex(stage) == CHOOSE k \in 1 .. Len(Stages) : Stages[k] = stage

IsGui == call.op = "gui"

\* the stages worker w has called or is about to call
StagesEntered(w) == w.invoked \cup (IF w.pc = "stage" THEN {Stages[w.stage]} ELSE {})

FailureStopsRun(w) ==
    /\ w.raised # "none" =>
          /\ w.error_shown
          /\ ~w.displayed
          /\ w.pc \in {"finally", "done"}
          /\ \A stage \in w.invoked : StageIndex(stage) <= StageIndex(w.raised)
    /\ \A stage \in StagesEntered(w) :
          \A input \in StageInputs(stage) : StageLocal(w, input).ok

\* C21: once a stage of a pipeline run raises, no later stage of that run is
\* invoked and the error is reported, and every stage that is invoked gets only
\* results of stages that succeeded.
C21_FailureStopsPipeline ==
    IsGui => \A i \in Workers : FailureStopsRun(call.workers[i])

\* a run whose burner stage raised after a successful combustion stage
C21_Witness ==
    /\ IsGui
    /\ \E i \in Workers :
         LET w == call.workers[i]
         IN  /\ w.pc = "done"
             /\ w.raised = "burner"
             /\ w.invoked = {"combustion", "burner"}
             /\ w.combustion.ok
             /\ w.error_shown

\* a run that called all five stages
C21_CompleteRunSeen ==
    /\ IsGui
    /\ \E i \in Workers :
         /\ call.workers[i].displayed
         /\ call.workers[i].invoked = {Stages[k] : k \in 1 .. Len(Stages)}

\* The pipeline of gui.py 561-649 run on one fixed input: the locals after the
\* first k stages and the value of stage k, ok = FALSE once a stage has raised.
SnapshotRun ==
    [d \in GuiInputs |->
       LET run[k \in 0 .. Len(Stages)] ==
             IF k = 0
             THEN [ok |-> TRUE, combustion |-> NotComputed, burner |-> NotComputed,
                   chamber |-> NotComputed, value |-> NotComputed]
             ELSE IF ~run[k - 1].ok THEN run[k - 1]
             ELSE LET res == StageCall(Stages[k], run[k - 1], d)
                  IN  IF ~res.ok THEN [run[k - 1] EXCEPT !.ok = FALSE]
                      ELSE [run[k - 1] EXCEPT
                              !.value = res,
                              !.combustion = IF k = 1 THEN res ELSE @,
                              !.burner = IF k = 2 THEN res ELSE @,
                              !.chamber = IF k = 3 THEN res ELSE @]
       IN  run]

\* the stored result of a stage is what the pipeline yields for the snapshot
DerivedFromSnapshot(w, stage) ==
    LET run == SnapshotRun[w.snapshot][StageIndex(stage)]
    IN  run.ok /\ w.stored[stage].value = run.value

RunIsOneUnit(w) ==
    w.pc = "done" =>
       \A stage \in DOMAIN w.stored :
          /\ w.stored[stage].run = w.run
          /\ DerivedFromSnapshot(w, stage)

\* C30: under every interleaving of the worker with the main-thread commands,
\* every stage result in the result set at the end of a run was computed by that
\* run and is derived from the input snapshot validated when the run started.
C30_RunIsOneUnit ==
    IsGui => \A i \in Workers : RunIsOneUnit(call.workers[i])

\* a finished run whose result set holds a chamber that is not the chamber of
\* its own snapshot, although that run itself computed it
C30_ForeignInputSeen ==
    /\ IsGui
    /\ \E i \in Workers :
         LET w == call.workers[i]
         IN  /\ w.pc = "done"
             /\ "chamber" \in DOMAIN w.stored
             /\ w.stored["chamber"].run = w.run
             /\ ~DerivedFromSnapshot(w, "chamber")

\* a finished run whose result set holds a result of the other run
C30_ForeignRunSeen ==
    /\ IsGui
    /\ \E i \in Workers :
         /\ call.workers[i].pc = "done"
         /\ \E stage \in DOMAIN call.workers[i].stored :
               call.workers[i].stored[stage].run # i

\* a run that went through undisturbed: all five results of its own snapshot
C30_UndisturbedRunSeen ==
    /\ IsGui
    /\ \E i \in Workers :
         /\ call.workers[i].pc = "done"
         /\ DOMAIN call.workers[i].stored = {Stages[k] : k \in 1 .. Len(Stages)}
         /\ RunIsOneUnit(call.workers[i])

====
